---------------------------- MODULE Spec2Model ----------------------------
(* A model of the hero-sms activation extension: the response normaliser   *)
(* of api.ts, the remaining-time computations of utils.ts and              *)
(* see-activations.tsx, the status classification, and the polling cycle   *)
(* of the activation list with its persisted timer entries.                *)
(* All instants and durations are in milliseconds, as in the source.       *)
EXTENDS Integers, Sequences, FiniteSets, TLC

VARIABLES
    now,            \* Date.now(): the wall clock, ms
    currentTime,    \* SeeActivations' currentTime state (set by the 1 s interval)
    tzOffset,       \* local wall-clock time minus UTC, ms (the host's timezone)
    item,           \* the activation being rendered: [localCreatedAt, activationTime]
    rendered,       \* what the last render of item shows, or NotRendered
    row,            \* the list row being classified: [activationStatus, smsCode, statusDetails]
    shown,          \* what the last render of row shows: [code, hasCode, status], or NotRendered
    op,             \* the api.ts operation being called
    apiKey,         \* preferences.apiKey
    response,       \* what fetch settles with: [kind, ok, text]
    outcome,        \* what the operation settled with: Return(v), Throw(m), or NotSettled
    store,          \* LocalStorage: activation id -> [text] of key activation_<id>, or NoItem
    upstream,       \* the provider's side: activation id -> Unborn, its record, or Gone
    mounted,        \* whether SeeActivations is mounted (its interval is set)
    activations,    \* SeeActivations' activations state: the displayed list
    isLoading,      \* SeeActivations' isLoading state
    ticks,          \* the fetchActivations calls in flight: [pc, live, list]
    cancel,         \* handleCancelActivation: Idle, awaiting the call, or its toast
    purchase,       \* requestNumber / handleActivate: Idle, or awaiting getNumber
    recentlyUsed,   \* LocalStorage: the item of key recently_used_service_countries, or NoItem
    loaded,         \* what the last getRecentlyUsedCountries returned, or NotLoaded
    balance,        \* SeeActivations' balance state: null or a number
    balanceInterval,\* whether the 30 s interval of fetchBalance is set
    balanceCalls    \* the fetchBalance calls in flight: [live]

timeVars == <<now, currentTime, tzOffset, item, rendered>>

statusVars == <<row, shown>>

apiVars == <<op, apiKey, response, outcome>>

sweepVars == <<store, upstream, mounted, activations, isLoading, ticks, cancel>>

recentVars == <<recentlyUsed, loaded>>

balanceVars == <<balance, balanceInterval, balanceCalls>>

vars ==
    <<now, currentTime, tzOffset, item, rendered, row, shown, op, apiKey, response,
      outcome, store, upstream, mounted, activations, isLoading, ticks, cancel,
      purchase, recentlyUsed, loaded, balance, balanceInterval, balanceCalls>>

(***************************************************************************)
(* Bounds of the model.                                                    *)
(***************************************************************************)
\* Instants are sampled within Jitter units on either side of every threshold.
Jitter == 1
\* The clock of the reconciler specification advances at most this many seconds.
Horizon == 2
\* The longest code text drawn from the alphabet.
MaxLen == 3
\* At most this many fetchActivations calls are in flight at once.
MaxTicks == 2
\* The clock of the poll-cycle specification advances at most this many spans.
Spans == 3

(***************************************************************************)
(* JavaScript values.                                                      *)
(***************************************************************************)
\* undefined / absent, where the value is otherwise a number
Undefined == 0 - 1

\* if (x) on a number-or-undefined: 0 and undefined are falsy
Truthy(x) == x # Undefined /\ x # 0

\* Math.floor(a / b) for b > 0
Floor(a, b) == a \div b

\* Values that may be a string, null or undefined carry their type.
Null == [t |-> "null"]

Undef == [t |-> "undefined"]

Str(s) == [t |-> "string", s |-> s]

\* a number is held by its canonical decimal text, String(n)
Num(text) == [t |-> "number", text |-> text]

\* the truthiness of any value
truthy(v) ==
    CASE v.t = "string" -> v.s # ""
      [] v.t = "number" -> v.text \notin {"0", "NaN"}
      [] v.t \in {"null", "undefined"} -> FALSE
      [] OTHER -> TRUE

\* a || b
or(a, b) == IF truthy(a) THEN a ELSE b

\* s.startsWith(p)
startsWith(s, p) == Len(s) >= Len(p) /\ SubSeq(s, 1, Len(p)) = p

charAt(s, i) == SubSeq(s, i, i)

\* the characters String.prototype.trim strips, and the line terminators
\* that "." does not match
WhiteSpace == {" ", "\n", "\t", "\r"}

LineTerminators == {"\n", "\r"}

RECURSIVE trimStart(_)
trimStart(s) ==
    IF Len(s) > 0 /\ charAt(s, 1) \in WhiteSpace
    THEN trimStart(SubSeq(s, 2, Len(s)))
    ELSE s

RECURSIVE trimEnd(_)
trimEnd(s) ==
    IF Len(s) > 0 /\ charAt(s, Len(s)) \in WhiteSpace
    THEN trimEnd(SubSeq(s, 1, Len(s) - 1))
    ELSE s

\* s.trim()
trim(s) == trimEnd(trimStart(s))

(***************************************************************************)
(* utils.ts: getRemainingTimeFromLocal                                     *)
(***************************************************************************)
Expired == [minutes |-> 0, seconds |-> 0, expired |-> TRUE]

\* const totalDuration = 20 * 60 * 1000
totalDuration == 20 * 60 * 1000

getRemainingTimeFromLocal_Buffered(localCreatedAt, dateNow) ==
    IF ~Truthy(localCreatedAt) THEN Expired
    ELSE LET timeElapsed == dateNow - localCreatedAt
             remaining == totalDuration - timeElapsed
             totalSeconds == Floor(remaining, 1000)
             minutes == Floor(totalSeconds, 60)
             seconds == totalSeconds % 60
         IN  IF remaining <= 0 - 5000 THEN Expired
             ELSE IF remaining < 0
                  THEN [minutes |-> 0, seconds |-> 0, expired |-> FALSE]
             ELSE IF minutes > 20
                  THEN [minutes |-> 20, seconds |-> 0, expired |-> FALSE]
             ELSE [minutes |-> minutes, seconds |-> seconds, expired |-> FALSE]

\* a computation that takes an instant not yet in the past for invalid
getRemainingTimeFromLocal_PastOnly(localCreatedAt, dateNow) ==
    IF ~Truthy(localCreatedAt) \/ dateNow - localCreatedAt <= 0 THEN Expired
    ELSE getRemainingTimeFromLocal_Buffered(localCreatedAt, dateNow)

\* dateNow is the value Date.now() returns inside the call
getRemainingTimeFromLocal(localCreatedAt, dateNow) ==
    IF ~Truthy(localCreatedAt) THEN Expired
    ELSE LET timeElapsed == dateNow - localCreatedAt
             remaining == totalDuration - timeElapsed
             totalSeconds == Floor(remaining, 1000)
             minutes == Floor(totalSeconds, 60)
             seconds == totalSeconds % 60
         IN  IF remaining <= 0 THEN Expired
             ELSE IF minutes > 20
                  THEN [minutes |-> 20, seconds |-> 0, expired |-> FALSE]
             ELSE [minutes |-> minutes, seconds |-> seconds, expired |-> FALSE]

(***************************************************************************)
(* see-activations.tsx: getRemainingTime                                   *)
(*                                                                         *)
(* A server timestamp is [fmt, wall]: fmt is the shape of the text and     *)
(* wall the wall-clock reading its digits denote, in ms (whole seconds).   *)
(*   "empty"        ""                                                     *)
(*   "blank"        whitespace only                                        *)
(*   "isoT"         YYYY-MM-DDTHH:MM:SS     (no zone: local time)          *)
(*   "isoZ"         YYYY-MM-DDTHH:MM:SSZ    (UTC)                          *)
(*   "space"        YYYY-MM-DD HH:MM:SS                                    *)
(*   "spaceInvalid" matches the pattern, denotes no date (month 13)        *)
(*   "garbage"      any other text that denotes no date                    *)
(*   "undefined"    no text: the field is absent (or null)                 *)
(*   "nonString"    no text: a truthy value of another type (a number)     *)
(***************************************************************************)
\* A Date object: getTime() is t, or NaN when the text denoted no date
InvalidDate == [valid |-> FALSE, t |-> 0]

isNaN(d) == ~d.valid

\* new Date(text) for a date-time text without a zone: read as local time
DateLocal(wall, tz) == [valid |-> TRUE, t |-> wall - tz]

\* new Date(text + "Z"): read as UTC
DateUTC(wall) == [valid |-> TRUE, t |-> wall]

includesT(ts) == ts.fmt \in {"isoT", "isoZ"}

matchesSpacePattern(ts) == ts.fmt \in {"space", "spaceInvalid"}

\* lines 293-306: the instant chosen for a YYYY-MM-DD HH:MM:SS timestamp
spaceDate_LocalOnly(ts, cur, tz) ==
    IF ts.fmt = "spaceInvalid" THEN InvalidDate ELSE DateLocal(ts.wall, tz)

spaceDate(ts, cur, tz) ==
    IF ts.fmt = "spaceInvalid" THEN InvalidDate
    ELSE LET activationDate == DateLocal(ts.wall, tz)
             testElapsed == cur - activationDate.t
             utcDate == DateUTC(ts.wall)
             utcElapsed == cur - utcDate.t
         IN  IF testElapsed < 0 - 300000 \/ testElapsed > 25 * 60 * 1000
             THEN IF utcElapsed >= 0 - 60000 /\ utcElapsed <= 25 * 60 * 1000
                  THEN utcDate
                  ELSE activationDate
             ELSE activationDate

\* lines 281-309
activationDateOf(ts, cur, tz) ==
    IF includesT(ts)
    THEN IF ts.fmt = "isoZ" THEN DateUTC(ts.wall) ELSE DateLocal(ts.wall, tz)
    ELSE IF matchesSpacePattern(ts) THEN spaceDate(ts, cur, tz)
    ELSE InvalidDate

\* a computation that reports expired as soon as nothing remains
remainingFromElapsed_NoBuffer(timeElapsed) ==
    LET remaining == totalDuration - timeElapsed
        totalSeconds == Floor(remaining, 1000)
    IN  IF timeElapsed < 0 - 60000 \/ remaining <= 0 THEN Expired
        ELSE [minutes |-> IF Floor(totalSeconds, 60) > 20 THEN 20
                          ELSE Floor(totalSeconds, 60),
              seconds |-> totalSeconds % 60, expired |-> FALSE]

\* lines 317-367: from the elapsed time to the result
remainingFromElapsed(timeElapsed) ==
    LET remaining == totalDuration - timeElapsed
        totalSeconds == Floor(remaining, 1000)
        minutes0 == Floor(totalSeconds, 60)
        seconds == totalSeconds % 60
        minutes == IF minutes0 > 20 THEN 20 ELSE minutes0
    IN  IF timeElapsed < 0 - 60000 THEN Expired
        ELSE IF remaining <= 0 - 5000 THEN Expired
        ELSE IF remaining < 0
             THEN [minutes |-> 0, seconds |-> 0, expired |-> FALSE]
        ELSE IF minutes < 0 \/ seconds < 0
             THEN [minutes |-> 0, seconds |-> 0, expired |-> FALSE]
        ELSE [minutes |-> minutes, seconds |-> seconds, expired |-> FALSE]

\* what the body of the try is left with when a statement throws
Thrown == [thrown |-> TRUE]

\* lines 274-367: the body of the try; cur is the currentTime state the
\* closure reads.  activationTime.trim() throws on a value without trim.
getRemainingTimeTry(ts, cur, tz) ==
    IF ts.fmt \in {"undefined", "empty"} THEN Expired
    ELSE IF ts.fmt = "nonString" THEN Thrown
    ELSE IF ts.fmt = "blank" THEN Expired
    ELSE LET activationDate == activationDateOf(ts, cur, tz)
         IN  IF isNaN(activationDate) THEN Expired
             ELSE remainingFromElapsed(cur - activationDate.t)

getRemainingTime_NoCatch(ts, cur, tz) == getRemainingTimeTry(ts, cur, tz)

\* lines 273-372: the try and its catch
getRemainingTime(ts, cur, tz) ==
    IF getRemainingTimeTry(ts, cur, tz) = Thrown
    THEN Expired
    ELSE getRemainingTimeTry(ts, cur, tz)

(***************************************************************************)
(* see-activations.tsx, the list item's render: lines 436-439              *)
(***************************************************************************)
remainingTimeOf_ServerFirst(a, dateNow, cur, tz) ==
    IF a.activationTime.fmt \notin {"empty", "blank"}
    THEN getRemainingTime(a.activationTime, cur, tz)
    ELSE getRemainingTimeFromLocal(a.localCreatedAt, dateNow)

remainingTimeOf(a, dateNow, cur, tz) ==
    IF Truthy(a.localCreatedAt)
    THEN getRemainingTimeFromLocal(a.localCreatedAt, dateNow)
    ELSE getRemainingTime(a.activationTime, cur, tz)


(***************************************************************************)
(* The reconciler specification: one activation record is rendered while   *)
(* the clock advances.  Its inputs are drawn around every threshold of the *)
(* two computations.                                                       *)
(***************************************************************************)
NotRendered == [pending |-> TRUE]

\* The instant the surface is mounted at (a whole second, well after 0).
T0 == 24 * 60 * 60 * 1000

Near(S, unit) == {s + j * unit : s \in S, j \in (0 - Jitter)..Jitter}

\* local wall-clock time minus UTC: UTC, UTC+1, UTC-5
TzOffsets == {0, 60 * 60 * 1000, 0 - 5 * 60 * 60 * 1000}

\* elapsed times at mount of the records created by this process
LocalElapsed ==
    Near({0 - 60000, 0, totalDuration - 1000, totalDuration}, 1) \cup {180000}

\* elapsed times at mount, under the intended reading, of server timestamps
ServerElapsed ==
    Near({0 - 300000, 0 - 60000, 0, totalDuration - 1000, totalDuration + 4000,
          25 * 60 * 1000 - 1000}, 1000) \cup {180000}

\* the server timestamps: written in UTC or in the host's local time
ServerTimestamps(tz) ==
    [fmt : {"space", "isoT", "isoZ"},
     wall : {T0 - e : e \in ServerElapsed} \cup {T0 + tz - e : e \in ServerElapsed}]
    \cup [fmt : {"empty", "blank", "spaceInvalid", "garbage", "undefined", "nonString"},
          wall : {0}]

\* a few server timestamps to go with a local instant
SomeTimestamps(tz) ==
    {[fmt |-> "space", wall |-> T0 - 180000],
     [fmt |-> "space", wall |-> T0 + tz - 30 * 60 * 1000],
     [fmt |-> "isoZ", wall |-> T0 - 30 * 60 * 1000],
     [fmt |-> "empty", wall |-> 0]}

Items(tz) ==
    [localCreatedAt : {T0 - e : e \in LocalElapsed}, activationTime : SomeTimestamps(tz)]
    \cup [localCreatedAt : {Undefined, 0}, activationTime : ServerTimestamps(tz)]

NotSettled == [pending |-> TRUE]

ApiIdle ==
    /\ op = "getBalance"
    /\ apiKey = "key"
    /\ response = [kind |-> "fulfilled", ok |-> TRUE, text |-> ""]
    /\ outcome = NotSettled

\* the activation ids of the model
Ids == {"101"}

NoItem == [absent |-> TRUE]

Unborn == [never |-> TRUE]

Idle == [pc |-> "idle"]

SweepIdle ==
    /\ store = [id \in Ids |-> NoItem]
    /\ upstream = [id \in Ids |-> Unborn]
    /\ mounted = FALSE
    /\ activations = <<>>
    /\ isLoading = TRUE
    /\ ticks = <<>>
    /\ cancel = Idle
    /\ purchase = Idle

NotLoaded == [pending |-> TRUE]

RecentIdle ==
    /\ recentlyUsed = NoItem
    /\ loaded = NotLoaded

BalanceIdle ==
    /\ balance = Null
    /\ balanceInterval = FALSE
    /\ balanceCalls = <<>>

StatusIdle ==
    /\ row = [activationStatus |-> "1", smsCode |-> Null, statusDetails |-> Null]
    /\ shown = NotRendered

TimeInit ==
    /\ StatusIdle
    /\ ApiIdle
    /\ SweepIdle
    /\ RecentIdle
    /\ BalanceIdle
    /\ now \in {T0 + j : j \in (0 - Jitter)..Jitter}
    /\ currentTime = now
    /\ tzOffset \in TzOffsets
    /\ item \in Items(tzOffset)
    /\ rendered = NotRendered

\* Time passes: a millisecond or a second.  The millisecond part of the
\* clock stays within Jitter + 1 of a whole second.
AdvanceClock ==
    /\ \E d \in {1, 1000} :
          /\ now + d <= T0 + Horizon * 1000 + Jitter + 1
          /\ (now + d - T0 + Jitter) % 1000 <= 2 * Jitter + 1
          /\ now' = now + d
    /\ UNCHANGED <<currentTime, tzOffset, item, rendered, statusVars, apiVars, sweepVars, purchase, recentVars, balanceVars>>

\* lines 215-218: the interval's callback, setCurrentTime(new Date());
\* the state change schedules a render
IntervalFire ==
    /\ currentTime' = now
    /\ rendered' = NotRendered
    /\ UNCHANGED <<now, tzOffset, item, statusVars, apiVars, sweepVars, purchase, recentVars, balanceVars>>

\* lines 436-450: the item's render
Render ==
    /\ rendered = NotRendered
    /\ rendered' = remainingTimeOf(item, now, currentTime, tzOffset)
    /\ UNCHANGED <<now, currentTime, tzOffset, item, statusVars, apiVars, sweepVars, purchase, recentVars, balanceVars>>

TimeNext == AdvanceClock \/ IntervalFire \/ Render

SpecTime == TimeInit /\ [][TimeNext]_vars

(***************************************************************************)
(* Claims about the remaining-time computations, under SpecTime.           *)
(***************************************************************************)
\* a step that renders the item
RenderStep == rendered = NotRendered /\ rendered' # NotRendered

\* the time a result reports, in seconds
ReportedSeconds(r) == r.minutes * 60 + r.seconds

\* C5: when the record has a local creation instant, what the render shows
\* is computed from now - localCreatedAt alone against the 20-minute
\* lifetime: it is the same for every server timestamp, the same at any
\* other instant with the same elapsed time, and it is expired exactly when
\* 20 min - elapsed <= 0.
C5_LocalInstantAuthoritative ==
    [][ (RenderStep /\ Truthy(item.localCreatedAt)) =>
          LET elapsed == now - item.localCreatedAt
          IN  /\ rendered'.expired = (20 * 60 * 1000 - elapsed <= 0)
              /\ \A ts \in ServerTimestamps(tzOffset) :
                    remainingTimeOf([item EXCEPT !.activationTime = ts],
                                    now, currentTime, tzOffset) = rendered'
              /\ rendered' = getRemainingTimeFromLocal(1000, 1000 + elapsed) ]_vars

\* C5's case: a record with a local instant is rendered as not expired
\* although its server timestamp, read alone, reports expired.
C5_Witness ==
    /\ rendered # NotRendered
    /\ Truthy(item.localCreatedAt)
    /\ ~rendered.expired
    /\ item.activationTime.fmt = "space"
    /\ getRemainingTime(item.activationTime, currentTime, tzOffset).expired

\* C6 as stated: with a local instant and the clock inside the window, the
\* reported time decreases over every second that passes before expiry,
\* expired never switches back, and expired is true exactly once remaining
\* has crossed below the -5000 ms buffer.
C6_Original_BufferedExpiry ==
    [][ (Truthy(item.localCreatedAt) /\ now' > now /\ now >= item.localCreatedAt) =>
          LET r == getRemainingTimeFromLocal(item.localCreatedAt, now)
              q == getRemainingTimeFromLocal(item.localCreatedAt, now')
              remaining == 20 * 60 * 1000 - (now' - item.localCreatedAt)
          IN  /\ (now' - now >= 1000 /\ ~r.expired /\ ~q.expired)
                    => ReportedSeconds(q) < ReportedSeconds(r)
              /\ r.expired => q.expired
              /\ q.expired = (remaining <= 0 - 5000) ]_vars

\* C6 as amended: with a local instant and the clock inside the window, the
\* reported time never increases and decreases over every second that
\* passes before expiry; expired never switches back, and it is true
\* exactly once remaining has reached 0: the local path has no buffer.
C6_MonotonicExpiryAtZero ==
    [][ (Truthy(item.localCreatedAt) /\ now' > now /\ now >= item.localCreatedAt) =>
          LET r == getRemainingTimeFromLocal(item.localCreatedAt, now)
              q == getRemainingTimeFromLocal(item.localCreatedAt, now')
              remaining == 20 * 60 * 1000 - (now' - item.localCreatedAt)
          IN  /\ ReportedSeconds(q) <= ReportedSeconds(r)
              /\ (now' - now >= 1000 /\ ~r.expired /\ ~q.expired)
                    => ReportedSeconds(q) < ReportedSeconds(r)
              /\ r.expired => q.expired
              /\ q.expired = (remaining <= 0) ]_vars

\* C6's case: a record with a local instant is rendered expired while its
\* remaining time is still above the -5000 ms buffer.
C6_Witness ==
    /\ rendered # NotRendered
    /\ Truthy(item.localCreatedAt)
    /\ now >= item.localCreatedAt
    /\ rendered.expired
    /\ 20 * 60 * 1000 - (now - item.localCreatedAt) > 0 - 5000

Results == [minutes : 0..20, seconds : 0..59, expired : BOOLEAN]

\* the timestamp denotes no instant
Unparsable(ts) ==
    ts.fmt \in {"empty", "blank", "spaceInvalid", "garbage", "undefined", "nonString"}

\* the elapsed time of a timestamp that has one reading only
SingleElapsed(ts, cur, tz) ==
    IF ts.fmt = "isoZ" THEN cur - ts.wall ELSE cur - (ts.wall - tz)

\* C11: both computations return a {minutes, seconds, expired} result on
\* every input, with or without a local instant, and nothing is thrown
\* out of them; a server timestamp that denotes no instant, or whose
\* elapsed time is more than 60 s in the future (under both readings when
\* it has two), gives expired = true.
C11_ExpirationTotal ==
    LET ts == item.activationTime
        r == getRemainingTime(ts, currentTime, tzOffset)
    IN  /\ r \in Results
        /\ getRemainingTimeFromLocal(item.localCreatedAt, now) \in Results
        /\ rendered # NotRendered => rendered \in Results
        /\ Unparsable(ts) => r.expired
        /\ (ts.fmt \in {"isoT", "isoZ"} /\ SingleElapsed(ts, currentTime, tzOffset) < 0 - 60000)
               => r.expired
        /\ (ts.fmt = "space"
              /\ currentTime - (ts.wall - tzOffset) < 0 - 60000
              /\ currentTime - ts.wall < 0 - 60000)
               => r.expired

\* C11's case: a record without a local instant whose timestamp is not a
\* text is rendered, and the render shows expired.
C11_Witness ==
    /\ rendered = Expired
    /\ ~Truthy(item.localCreatedAt)
    /\ item.activationTime.fmt = "nonString"

\* the elapsed time getRemainingTime computes for a timestamp it can read
ServerElapsedOf(ts, cur, tz) == cur - activationDateOf(ts, cur, tz).t

\* C22: a render from a server timestamp that denotes an instant not more
\* than 60 s in the future reports expired exactly when
\* remaining = 20 min - elapsed is at most -5000 ms, and reports 0:00, not
\* expired, when remaining is between -5000 ms and 0.
C22_ServerGraceBuffer ==
    [][ (RenderStep /\ ~Truthy(item.localCreatedAt)
           /\ ~Unparsable(item.activationTime)
           /\ ServerElapsedOf(item.activationTime, currentTime, tzOffset) >= 0 - 60000) =>
          LET remaining == 20 * 60 * 1000
                           - ServerElapsedOf(item.activationTime, currentTime, tzOffset)
          IN  /\ rendered'.expired <=> remaining <= 0 - 5000
              /\ (0 - 5000 < remaining /\ remaining < 0) =>
                     rendered' = [minutes |-> 0, seconds |-> 0, expired |-> FALSE] ]_vars

\* a record without a local instant is rendered as 0:00, not expired, its
\* 20 minutes over by less than 5 s
C22_Witness ==
    /\ rendered = [minutes |-> 0, seconds |-> 0, expired |-> FALSE]
    /\ ~Truthy(item.localCreatedAt)
    /\ ~Unparsable(item.activationTime)
    /\ ServerElapsedOf(item.activationTime, currentTime, tzOffset) > 20 * 60 * 1000
    /\ ServerElapsedOf(item.activationTime, currentTime, tzOffset) < 20 * 60 * 1000 + 5000

\* C26 as stated: whatever a render shows, from a local instant or from a
\* server timestamp, is at most the 20 minutes of the lifetime: minutes is
\* at most 20 and minutes * 60 + seconds at most 1200.
C26_Original_NeverAboveLifetime ==
    rendered # NotRendered =>
        /\ rendered.minutes <= 20
        /\ ReportedSeconds(rendered) <= 1200

\* C20: a record rendered at the instant its local creation instant was
\* taken shows 20:00, not expired; rendered within the second after, it
\* shows 20:00 or 19:59, not expired.
C20_FreshRecord ==
    [][ (RenderStep /\ Truthy(item.localCreatedAt)
           /\ now - item.localCreatedAt \in 0..1000) =>
          /\ rendered' \in {[minutes |-> 20, seconds |-> 0, expired |-> FALSE],
                            [minutes |-> 19, seconds |-> 59, expired |-> FALSE]}
          /\ now = item.localCreatedAt =>
                 rendered' = [minutes |-> 20, seconds |-> 0, expired |-> FALSE] ]_vars

\* a record created at the present instant is rendered as 20:00
C20_Witness ==
    /\ rendered = [minutes |-> 20, seconds |-> 0, expired |-> FALSE]
    /\ item.localCreatedAt = now
    /\ currentTime = now

(***************************************************************************)
(* see-activations.tsx: the row's code, hasCode and getStatusText          *)
(***************************************************************************)
\* activation.statusDetails?.sms?.code
smsCodeOfDetails(statusDetails) ==
    IF statusDetails.t # "object" THEN Undef
    ELSE IF statusDetails.sms.t # "object" THEN Undef
    ELSE statusDetails.sms.code

\* line 408: activation.smsCode || activation.statusDetails?.sms?.code
codeOf(a) == or(a.smsCode, smsCodeOfDetails(a.statusDetails))

\* code.match(/^\[.*\]$/): "." matches no line terminator
matchesBrackets(s) ==
    /\ Len(s) >= 2
    /\ charAt(s, 1) = "["
    /\ charAt(s, Len(s)) = "]"
    /\ \A i \in 2..(Len(s) - 1) : charAt(s, i) \notin LineTerminators

hasCodeOf_NoBracketCheck(code) ==
    /\ truthy(code)
    /\ code.t = "string"
    /\ code.s # "null"
    /\ code.s # "undefined"
    /\ Len(trim(code.s)) > 0

\* lines 410-417
hasCodeOf(code) ==
    /\ truthy(code)
    /\ code.t = "string"
    /\ code.s # "null"
    /\ code.s # "undefined"
    /\ Len(trim(code.s)) > 0
    /\ ~matchesBrackets(code.s)

getStatusText_NaiveTable(activation, hasCode) ==
    IF hasCode THEN "Code Received"
    ELSE CASE activation.activationStatus = "1" -> "Waiting for SMS"
           [] activation.activationStatus = "3" -> "Retrying"
           [] activation.activationStatus = "4" -> "Completed"
           [] activation.activationStatus = "6" -> "Completed"
           [] activation.activationStatus = "8" -> "Canceled"
           [] OTHER -> "Status: " \o activation.activationStatus

getStatusText_CancelFirst(activation, hasCode) ==
    IF activation.activationStatus = "8" THEN "Canceled"
    ELSE IF hasCode THEN "Code Received"
    ELSE CASE activation.activationStatus = "1" -> "Waiting for SMS"
           [] activation.activationStatus = "3" -> "Retrying"
           [] activation.activationStatus = "4" -> "Waiting for SMS"
           [] activation.activationStatus = "6" -> "Completed"
           [] OTHER -> "Status: " \o activation.activationStatus

\* lines 656-684
getStatusText(activation, hasCode) ==
    IF hasCode THEN "Code Received"
    ELSE CASE activation.activationStatus = "1" -> "Waiting for SMS"
           [] activation.activationStatus = "3" -> "Retrying"
           [] activation.activationStatus = "4" -> "Waiting for SMS"
           [] activation.activationStatus = "6" ->
                IF hasCode THEN "Code Received" ELSE "Completed"
           [] activation.activationStatus = "8" -> "Canceled"
           [] OTHER -> "Status: " \o activation.activationStatus

(***************************************************************************)
(* The classification specification: one row of the list is rendered, and  *)
(* polls replace its status, its code and its status details.              *)
(***************************************************************************)
Alphabet == {"[", "]", "1", " "}

RECURSIVE TextsUpTo(_)
TextsUpTo(n) ==
    IF n = 0 THEN {""}
    ELSE LET shorter == TextsUpTo(n - 1)
         IN  shorter \cup {s \o c : s \in shorter, c \in Alphabet}

\* every text over the alphabet, and the texts the claims name
CodeTexts ==
    TextsUpTo(MaxLen) \cup
    {"null", "undefined", " null", "[null]", "1234", "[1234]", "[1234] extra",
     " [1234]", "[12] [34]"}

AllCodes == {Null, Undef} \cup {Str(s) : s \in CodeTexts}

FewCodes == {Null, Undef, Str(""), Str("null"), Str("undefined"), Str("[1234]"),
             Str("1234")}

RawStatuses == {"1", "3", "4", "6", "8", "", "2", "5", "10"}

DetailsWith(code) ==
    IF code = Null THEN Null
    ELSE IF code = Undef THEN [t |-> "object", sms |-> Undef]
    ELSE [t |-> "object", sms |-> [t |-> "object", code |-> code]]

\* smsCode is a string or null (api.ts: Activation); sms.code a string, or
\* absent with sms or with the status details
Rows ==
    {[activationStatus |-> st, smsCode |-> c, statusDetails |-> DetailsWith(d)] :
        st \in RawStatuses, c \in AllCodes \ {Undef}, d \in FewCodes}
    \cup
    {[activationStatus |-> st, smsCode |-> c, statusDetails |-> DetailsWith(d)] :
        st \in RawStatuses, c \in FewCodes \ {Undef}, d \in AllCodes}

TimeIdle ==
    /\ now = T0
    /\ currentTime = T0
    /\ tzOffset = 0
    /\ item = [localCreatedAt |-> Undefined,
               activationTime |-> [fmt |-> "empty", wall |-> 0]]
    /\ rendered = NotRendered

StatusInit ==
    /\ TimeIdle
    /\ ApiIdle
    /\ SweepIdle
    /\ RecentIdle
    /\ BalanceIdle
    /\ row \in Rows
    /\ shown = NotRendered

\* lines 407-418: the row's render
RenderRow ==
    /\ shown = NotRendered
    /\ LET code == codeOf(row)
           hasCode == hasCodeOf(code)
       IN  shown' = [code |-> code, hasCode |-> hasCode,
                     status |-> getStatusText(row, hasCode)]
    /\ UNCHANGED <<row, timeVars, apiVars, sweepVars, purchase, recentVars, balanceVars>>

\* a poll's setActivations replaces the row: a new status arrives
StatusArrives ==
    /\ shown # NotRendered
    /\ \E st \in RawStatuses :
          /\ st # row.activationStatus
          /\ row' = [row EXCEPT !.activationStatus = st]
    /\ shown' = NotRendered
    /\ UNCHANGED <<timeVars, apiVars, sweepVars, purchase, recentVars, balanceVars>>

\* a poll's setActivations replaces the row: the status details carry a code
CodeArrives ==
    /\ shown # NotRendered
    /\ \E d \in FewCodes :
          /\ DetailsWith(d) # row.statusDetails
          /\ row' = [row EXCEPT !.statusDetails = DetailsWith(d)]
    /\ shown' = NotRendered
    /\ UNCHANGED <<timeVars, apiVars, sweepVars, purchase, recentVars, balanceVars>>

StatusNext == RenderRow \/ StatusArrives \/ CodeArrives

SpecStatus == StatusInit /\ [][StatusNext]_vars

(***************************************************************************)
(* Claims about the classification, under SpecStatus.                      *)
(***************************************************************************)
\* the display state the classification table assigns
TableState(rawStatus, hasUsableCode) ==
    IF hasUsableCode THEN "Code Received"
    ELSE CASE rawStatus = "1" -> "Waiting for SMS"
           [] rawStatus = "3" -> "Retrying"
           [] rawStatus = "4" -> "Waiting for SMS"
           [] rawStatus = "6" -> "Completed"
           [] rawStatus = "8" -> "Canceled"
           [] OTHER -> "Status: " \o rawStatus

\* C8: the status a rendered row shows is the table's value for its raw
\* status and its usable-code flag: "Code Received" with a usable code for
\* every raw status; without one 1 and 4 are Waiting for SMS, 3 Retrying,
\* 6 Completed, 8 Canceled and any other value Unknown with the raw value.
\* Nothing else of the row enters the result.
C8_StatusClassification ==
    shown # NotRendered =>
        shown.status = TableState(row.activationStatus, shown.hasCode)

\* C8's case: a row of an unlisted raw status without a usable code is
\* rendered with the raw value.
C8_Witness ==
    /\ shown # NotRendered
    /\ row.activationStatus = "5"
    /\ ~shown.hasCode
    /\ row.smsCode = Str("[1234]")
    /\ shown.status = "Status: 5"

\* C9 as stated: (4, no code) is Waiting for SMS, (4, code) is Code
\* Received, and raw status 8 is Canceled whatever the code flag.
C9_Original_CanceledAlways ==
    shown # NotRendered =>
        /\ (row.activationStatus = "4" /\ ~shown.hasCode)
              => shown.status = "Waiting for SMS"
        /\ (row.activationStatus = "4" /\ shown.hasCode)
              => shown.status = "Code Received"
        /\ row.activationStatus = "8" => shown.status = "Canceled"

\* C9 as amended: (4, no code) is Waiting for SMS, (4, code) is Code
\* Received, (8, no code) is Canceled and (8, code) is Code Received.
C9_StatusExamples ==
    shown # NotRendered =>
        /\ (row.activationStatus = "4" /\ ~shown.hasCode)
              => shown.status = "Waiting for SMS"
        /\ (row.activationStatus = "4" /\ shown.hasCode)
              => shown.status = "Code Received"
        /\ (row.activationStatus = "8" /\ ~shown.hasCode)
              => shown.status = "Canceled"
        /\ (row.activationStatus = "8" /\ shown.hasCode)
              => shown.status = "Code Received"

\* C9's case: a canceled row that carries a usable code is rendered.
C9_Witness ==
    /\ shown # NotRendered
    /\ row.activationStatus = "8"
    /\ shown.hasCode
    /\ shown.status = "Code Received"

\* a text wrapped in brackets: bracket decoration and nothing outside it
DecorationOnly(s) ==
    Len(s) >= 2 /\ SubSeq(s, 1, 1) = "[" /\ SubSeq(s, Len(s), Len(s)) = "]"

\* C10: the usable-code flag of a rendered row is true exactly when its
\* code is not null (nor absent), not empty after trimming, not the text
\* "null" or "undefined", and not bracket decoration only; "[1234]" is
\* unusable, "[1234] extra" and "1234" are usable.
C10_UsableCode ==
    shown # NotRendered =>
        /\ shown.hasCode =
              ( /\ shown.code \notin {Null, Undef}
                /\ trim(shown.code.s) # ""
                /\ shown.code.s \notin {"null", "undefined"}
                /\ ~DecorationOnly(shown.code.s) )
        /\ shown.code = Str("[1234]") => ~shown.hasCode
        /\ shown.code \in {Str("[1234] extra"), Str("1234")} => shown.hasCode

\* C10's case: a bracketed code followed by more text, taken from the
\* status details, is rendered usable.
C10_Witness ==
    /\ shown # NotRendered
    /\ shown.code = Str("[1234] extra")
    /\ shown.hasCode
    /\ row.smsCode = Null

\* a usable code: a text, not empty after trimming, not the text "null" or
\* "undefined", not bracket decoration only
Usable(code) ==
    /\ code \notin {Null, Undef}
    /\ trim(code.s) # ""
    /\ code.s \notin {"null", "undefined"}
    /\ ~DecorationOnly(code.s)

\* C29 as stated: a rendered row whose smsCode or whose status details'
\* sms.code is usable is classified "Code Received", whatever the other of
\* the two holds.
C29_Original_EitherSourceRecognised ==
    (/\ shown # NotRendered
     /\ \/ Usable(row.smsCode)
        \/ Usable(smsCodeOfDetails(row.statusDetails))) =>
        (shown.hasCode /\ shown.status = "Code Received")


(***************************************************************************)
(* JSON values: the decoded payloads of api.ts.                            *)
(*   an object by its keys in insertion order and its key -> value map;    *)
(*   an array by the sequence of its items.                                *)
(***************************************************************************)
Obj(keys, val) == [t |-> "object", keys |-> keys, val |-> val]

Arr(items) == [t |-> "array", items |-> items]

EmptyObj == Obj(<<>>, <<>>)

\* typeof v === "object"
typeofObject(v) == v.t \in {"object", "array", "null"}

\* Array.isArray(v)
isArray(v) == v.t = "array"

\* o.k on an object, an array, a number or a string: undefined when absent
Get(o, k) ==
    IF o.t = "object" /\ k \in DOMAIN o.val THEN o.val[k] ELSE Undef

Range(q) == {q[i] : i \in 1..Len(q)}

Digits == {"0", "1", "2", "3", "4", "5", "6", "7", "8", "9"}

\* /^\d+$/.test(k)
allDigits(k) == Len(k) > 0 /\ \A i \in 1..Len(k) : charAt(k, i) \in Digits

DigitValue(c) ==
    CASE c = "0" -> 0 [] c = "1" -> 1 [] c = "2" -> 2 [] c = "3" -> 3
      [] c = "4" -> 4 [] c = "5" -> 5 [] c = "6" -> 6 [] c = "7" -> 7
      [] c = "8" -> 8 [] c = "9" -> 9

RECURSIVE NumberOf(_)
NumberOf(k) ==
    IF Len(k) = 0 THEN 0
    ELSE 10 * NumberOf(SubSeq(k, 1, Len(k) - 1)) + DigitValue(charAt(k, Len(k)))

\* an integer index: a canonical decimal numeral
isIndexKey(k) == allDigits(k) /\ (Len(k) = 1 \/ charAt(k, 1) # "0")

RECURSIVE Ascending(_)
Ascending(S) ==
    IF S = {} THEN <<>>
    ELSE LET m == CHOOSE k \in S : \A j \in S : NumberOf(k) <= NumberOf(j)
         IN  <<m>> \o Ascending(S \ {m})

\* the own keys of an object in property order: the integer indices
\* ascending, then the other keys in insertion order
ownKeys(o) ==
    Ascending({k \in Range(o.keys) : isIndexKey(k)})
    \o SelectSeq(o.keys, LAMBDA k : ~isIndexKey(k))

\* Object.keys(v) and Object.values(v) on an object or an array
ObjectKeys(v) == IF v.t = "object" THEN ownKeys(v) ELSE <<>>

\* values taken in the order the keys were written
ObjectValues_InsertionOrder(v) ==
    IF v.t = "object" THEN [i \in 1..Len(v.keys) |-> v.val[v.keys[i]]]
    ELSE IF v.t = "array" THEN v.items
    ELSE <<>>

ObjectValues(v) ==
    IF v.t = "object" THEN [i \in 1..Len(ownKeys(v)) |-> v.val[ownKeys(v)[i]]]
    ELSE IF v.t = "array" THEN v.items
    ELSE <<>>

\* target[k] = x
setKey(o, k, x) ==
    Obj(IF k \in DOMAIN o.val THEN o.keys ELSE Append(o.keys, k),
        [j \in (DOMAIN o.val) \cup {k} |-> IF j = k THEN x ELSE o.val[j]])

RECURSIVE copyKeys(_, _, _)
copyKeys(target, source, keys) ==
    IF keys = <<>> THEN target
    ELSE copyKeys(setKey(target, Head(keys), source.val[Head(keys)]),
                  source, Tail(keys))

\* an assign that copies the first source only
ObjectAssign_FirstSource(target, sources) ==
    IF sources = <<>> \/ Head(sources).t # "object" THEN target
    ELSE copyKeys(target, Head(sources), ownKeys(Head(sources)))

\* Object.assign(target, ...sources): a source that is no object has no
\* own keys to copy
RECURSIVE ObjectAssign(_, _)
ObjectAssign(target, sources) ==
    IF sources = <<>> THEN target
    ELSE ObjectAssign(
             IF Head(sources).t = "object"
             THEN copyKeys(target, Head(sources), ownKeys(Head(sources)))
             ELSE target,
             Tail(sources))

\* String(v)
String(v) ==
    CASE v.t = "string" -> v.s
      [] v.t = "number" -> v.text
      [] v.t = "null" -> "null"
      [] v.t = "undefined" -> "undefined"
      [] v.t = "array" -> "[array]"
      [] OTHER -> "[object Object]"

\* parseFloat(v): of a number the number, of a decimal text its value
parseFloat(v) ==
    CASE v.t = "number" -> v
      [] v.t = "string" /\ v.s = "0.50" -> Num("0.5")
      [] v.t = "string" /\ v.s = "1.00" -> Num("1")
      [] v.t = "string" /\ v.s = "1.5" -> Num("1.5")
      [] v.t = "string" /\ v.s = "123.45" -> Num("123.45")
      [] v.t = "string" /\ isIndexKey(v.s) -> Num(v.s)
      [] OTHER -> Num("NaN")

(***************************************************************************)
(* The payload texts and JSON.parse.                                       *)
(***************************************************************************)
DocErrNoActivations == "{\"status\":\"error\",\"error\":\"NO_ACTIVATIONS\"}"

DocErrBadAction == "{\"status\":\"error\",\"error\":\"BAD_ACTION\"}"

DocErrMsg == "{\"status\":\"error\",\"msg\":\"Service unavailable\"}"

DocErrBare == "{\"status\":\"error\"}"

DocServices ==
    "{\"status\":\"success\",\"services\":[{\"code\":\"tg\",\"name\":\"Telegram\"}]}"

DocCountries ==
    "{\"2\":{\"id\":2,\"eng\":\"Kazakhstan\"},\"1\":{\"id\":1,\"eng\":\"Ukraine\"}}"

DocPricesArray ==
    "[{\"1\":{\"svcA\":{\"cost\":1}}},{\"2\":{\"svcA\":{\"cost\":2}}}]"

DocPricesArrayReversed ==
    "[{\"2\":{\"svcA\":{\"cost\":2}}},{\"1\":{\"svcA\":{\"cost\":1}}}]"

\* two elements under the same country key, each with its own service
DocPricesSameCountry ==
    "[{\"1\":{\"svcA\":{\"cost\":1}}},{\"1\":{\"svcB\":{\"cost\":2}}}]"

DocPricesObject == "{\"1\":{\"svcA\":{\"cost\":1}}}"

DocEmptyArray == "[]"

DocNumberOf(id) ==
    "{\"activationId\":" \o id \o ",\"phoneNumber\":\"79990001\",\"activationCost\":\"0.50\"}"

DocNumber == DocNumberOf("101")

DocRows ==
    "{\"status\":\"success\",\"activeActivations\":{\"rows\":[{\"id\":101,\"service\":\"tg\",\"phone\":\"79990001\",\"cost\":\"0.50\",\"status\":4,\"createDate\":\"2026-01-08 21:42:03\"},{\"activationId\":\"102\",\"serviceCode\":\"wa\",\"phoneNumber\":\"79990002\",\"activationCost\":\"1.5\",\"activationStatus\":\"1\",\"smsCode\":\"1234\",\"activationTime\":\"2026-01-08 21:40:00\",\"currency\":643}]}}"

DocActivationsList ==
    "{\"status\":\"success\",\"activeActivations\":[{\"activationId\":\"101\"}]}"

DocActivationsById == "{\"102\":{\"activationId\":\"102\"},\"101\":{\"activationId\":\"101\"}}"

DocStatusV2 == "{\"verificationType\":0,\"sms\":{\"code\":\"1234\",\"text\":\"Code 1234\"}}"

DocNull == "null"

DocBareNumber == "123.45"

Country(id, eng) == Obj(<<"id", "eng">>, [id |-> Num(id), eng |-> Str(eng)])

PriceBlock(cost) ==
    Obj(<<"svcA">>, [svcA |-> Obj(<<"cost">>, [cost |-> Num(cost)])])

Row101 ==
    Obj(<<"id", "service", "phone", "cost", "status", "createDate">>,
        [id |-> Num("101"), service |-> Str("tg"), phone |-> Str("79990001"),
         cost |-> Str("0.50"), status |-> Num("4"),
         createDate |-> Str("2026-01-08 21:42:03")])

Row102 ==
    Obj(<<"activationId", "serviceCode", "phoneNumber", "activationCost",
          "activationStatus", "smsCode", "activationTime", "currency">>,
        [activationId |-> Str("102"), serviceCode |-> Str("wa"),
         phoneNumber |-> Str("79990002"), activationCost |-> Str("1.5"),
         activationStatus |-> Str("1"), smsCode |-> Str("1234"),
         activationTime |-> Str("2026-01-08 21:40:00"), currency |-> Num("643")])

ErrorDoc(keys, val) == Obj(<<"status">> \o keys, [status |-> Str("error")] @@ val)

\* what each JSON text decodes to
JsonDocs ==
    (DocErrNoActivations :> ErrorDoc(<<"error">>, [error |-> Str("NO_ACTIVATIONS")]))
    @@ (DocErrBadAction :> ErrorDoc(<<"error">>, [error |-> Str("BAD_ACTION")]))
    @@ (DocErrMsg :> ErrorDoc(<<"msg">>, [msg |-> Str("Service unavailable")]))
    @@ (DocErrBare :> ErrorDoc(<<>>, <<>>))
    @@ (DocServices :>
          Obj(<<"status", "services">>,
              [status |-> Str("success"),
               services |-> Arr(<<Obj(<<"code", "name">>,
                                     [code |-> Str("tg"), name |-> Str("Telegram")])>>)]))
    @@ (DocCountries :>
          Obj(<<"2", "1">>,
              ("2" :> Country("2", "Kazakhstan")) @@ ("1" :> Country("1", "Ukraine"))))
    @@ (DocPricesArray :>
          Arr(<<Obj(<<"1">>, ("1" :> PriceBlock("1"))),
                Obj(<<"2">>, ("2" :> PriceBlock("2")))>>))
    @@ (DocPricesArrayReversed :>
          Arr(<<Obj(<<"2">>, ("2" :> PriceBlock("2"))),
                Obj(<<"1">>, ("1" :> PriceBlock("1")))>>))
    @@ (DocPricesSameCountry :>
          Arr(<<Obj(<<"1">>, ("1" :> PriceBlock("1"))),
                Obj(<<"1">>,
                    ("1" :> Obj(<<"svcB">>,
                                [svcB |-> Obj(<<"cost">>, [cost |-> Num("2")])])))>>))
    @@ (DocPricesObject :> Obj(<<"1">>, ("1" :> PriceBlock("1"))))
    @@ (DocEmptyArray :> Arr(<<>>))
    @@ [text \in {DocNumberOf(id) : id \in Ids} |->
           LET id == CHOOSE i \in Ids : DocNumberOf(i) = text
           IN  Obj(<<"activationId", "phoneNumber", "activationCost">>,
                   [activationId |-> Num(id), phoneNumber |-> Str("79990001"),
                    activationCost |-> Str("0.50")])]
    @@ (DocRows :>
          Obj(<<"status", "activeActivations">>,
              [status |-> Str("success"),
               activeActivations |->
                   Obj(<<"rows">>, [rows |-> Arr(<<Row101, Row102>>)])]))
    @@ (DocActivationsList :>
          Obj(<<"status", "activeActivations">>,
              [status |-> Str("success"),
               activeActivations |->
                   Arr(<<Obj(<<"activationId">>, [activationId |-> Str("101")])>>)]))
    @@ (DocActivationsById :>
          Obj(<<"102", "101">>,
              ("102" :> Obj(<<"activationId">>, [activationId |-> Str("102")]))
              @@ ("101" :> Obj(<<"activationId">>, [activationId |-> Str("101")]))))
    @@ (DocStatusV2 :>
          Obj(<<"verificationType", "sms">>,
              [verificationType |-> Num("0"),
               sms |-> Obj(<<"code", "text">>,
                           [code |-> Str("1234"), text |-> Str("Code 1234")])]))
    @@ (DocNull :> Null)
    @@ (DocBareNumber :> Num("123.45"))

\* the bare texts of the upstream: no JSON
PlainTexts ==
    {"NO_KEY", "BAD_KEY", "BAD_KEY_EXPIRED", "ERROR_SQL", "ERROR_SQL_TIMEOUT",
     "NO_ACTIVATIONS", "NO_ACTIVATION",
     "NO_NUMBERS", "NO_BALANCE", "BAD_ACTION", "BAD_SERVICE", "BAD_STATUS",
     "ERROR_NO_OPERATIONS", "WRONG_ACTIVATION_ID", "EARLY_CANCEL_DENIED",
     "ACCESS_CANCEL", "ACCESS_READY", "ACCESS_BALANCE:123.45",
     "ACCESS_NUMBER:101:79990001", "STATUS_WAIT_CODE", "STATUS_OK:1234",
     "STATUS_CANCEL", "", "<html>Bad Gateway</html>"}

\* JSON.parse(text): the decoded value, or a SyntaxError
JSONparse(text) ==
    IF text \in DOMAIN JsonDocs
    THEN [ok |-> TRUE, value |-> JsonDocs[text]]
    ELSE [ok |-> FALSE]

(***************************************************************************)
(* api.ts: apiCall.  A call returns a value or throws an Error with a      *)
(* message.                                                                *)
(***************************************************************************)
Return(v) == [ok |-> TRUE, value |-> v]

Throw(message) == [ok |-> FALSE, message |-> message]

InvalidKeyMessage ==
    "Invalid API key. Please check your API key in Raycast preferences."

\* lines 47-55: the body of the inner try
apiCallTry(text) ==
    LET decoded == JSONparse(text)
    IN  IF ~decoded.ok THEN Throw("SyntaxError")
        ELSE LET parsed == decoded.value
             IN  IF /\ truthy(parsed)
                    /\ typeofObject(parsed)
                    /\ Get(parsed, "status") = Str("error")
                 THEN Throw(String(or(Get(parsed, "error"),
                                      or(Get(parsed, "msg"),
                                         Str("API returned an error")))))
                 ELSE Return(parsed)

\* an inner catch that falls back to the text whatever it looks like
apiCallCatch_ReturnsText(text) == Return(Str(text))

\* lines 56-62: the inner catch, entered by whatever the try body threw
apiCallCatch(text) ==
    IF startsWith(text, "BAD_") \/ startsWith(text, "NO_") \/ startsWith(text, "ERROR_")
    THEN Throw(text)
    ELSE Return(Str(text))

\* lines 17-70; key is preferences.apiKey, res what fetch settled with
apiCall(key, res) ==
    IF key = ""
    THEN Throw("API key not configured. Please set it in Raycast preferences.")
    ELSE IF res.kind = "rejected" THEN Throw("fetch failed")
    ELSE IF ~res.ok THEN Throw("API request failed with status 502: Bad Gateway")
    ELSE IF startsWith(res.text, "NO_KEY") \/ startsWith(res.text, "BAD_KEY")
    THEN Throw(InvalidKeyMessage)
    ELSE IF startsWith(res.text, "ERROR_SQL")
    THEN Throw("Server error. Please try again later.")
    ELSE IF apiCallTry(res.text).ok
    THEN apiCallTry(res.text)
    ELSE apiCallCatch(res.text)


(***************************************************************************)
(* api.ts: the operations.  Each takes what apiCall settled with.          *)
(***************************************************************************)
\* s.includes(sub)
includes(s, sub) ==
    \E i \in 1..(Len(s) - Len(sub) + 1) : SubSeq(s, i, i + Len(sub) - 1) = sub

typeofName(v) ==
    CASE v.t \in {"object", "array", "null"} -> "object"
      [] OTHER -> v.t

\* lines 120-137
getServicesList(r) ==
    IF ~r.ok THEN r
    ELSE IF r.value.t = "string" THEN Throw(r.value.s)
    ELSE IF r.value.t = "null"
    THEN Throw("TypeError: Cannot read properties of null (reading 'status')")
    ELSE IF Get(r.value, "status") = Str("success") /\ isArray(Get(r.value, "services"))
    THEN Return(Get(r.value, "services"))
    ELSE Throw("Failed to fetch services list")

\* lines 139-164
getCountries(r) ==
    IF ~r.ok THEN r
    ELSE IF r.value.t = "string"
    THEN IF startsWith(r.value.s, "NO_KEY") \/ startsWith(r.value.s, "BAD_KEY")
         THEN Throw(InvalidKeyMessage)
         ELSE IF startsWith(r.value.s, "ERROR_")
         THEN Throw("API error: " \o r.value.s)
         ELSE Throw(r.value.s)
    ELSE IF truthy(r.value) /\ typeofObject(r.value) /\ ~isArray(r.value)
    THEN Return(Arr(ObjectValues(r.value)))
    ELSE IF isArray(r.value) THEN Return(r.value)
    ELSE Throw("Failed to fetch countries: unexpected response format. Received: "
               \o typeofName(r.value))

\* lines 166-200
getPrices(r) ==
    IF ~r.ok THEN r
    ELSE IF r.value.t = "string" THEN Throw(r.value.s)
    ELSE IF isArray(r.value)
    THEN IF Len(r.value.items) = 0 THEN Return(EmptyObj)
         ELSE Return(ObjectAssign(EmptyObj, r.value.items))
    ELSE IF typeofObject(r.value) /\ r.value.t # "null" THEN Return(r.value)
    ELSE Throw("Failed to fetch prices: unexpected response format")

\* result.split(":")
RECURSIVE splitColon(_)
splitColon(s) ==
    IF \E i \in 1..Len(s) : charAt(s, i) = ":"
    THEN LET i == CHOOSE j \in 1..Len(s) :
                      charAt(s, j) = ":" /\ \A k \in 1..(j - 1) : charAt(s, k) # ":"
         IN  <<SubSeq(s, 1, i - 1)>> \o splitColon(SubSeq(s, i + 1, Len(s)))
    ELSE <<s>>

\* the longest prefix of s made of digits
RECURSIVE digitsPrefix(_)
digitsPrefix(s) ==
    IF Len(s) > 0 /\ charAt(s, 1) \in Digits
    THEN SubSeq(s, 1, 1) \o digitsPrefix(SubSeq(s, 2, Len(s)))
    ELSE ""

RECURSIVE stripZeros(_)
stripZeros(d) ==
    IF Len(d) > 1 /\ charAt(d, 1) = "0" THEN stripZeros(SubSeq(d, 2, Len(d))) ELSE d

\* parseInt(v) of an unsigned text: the leading digits, NaN without any
parseInt(v) ==
    IF v.t = "string" /\ digitsPrefix(trimStart(v.s)) # ""
    THEN Num(stripZeros(digitsPrefix(trimStart(v.s))))
    ELSE IF v.t = "number" THEN v
    ELSE Num("NaN")

\* new Date(t).toISOString()
toISOString(t) == [t |-> "string", fmt |-> "isoZ", wall |-> t]

\* parts[i], undefined past the end
partAt(parts, i) == IF i <= Len(parts) THEN Str(parts[i]) ELSE Undef

\* lines 202-235; country is the caller's argument, dateNow the clock
getNumber(r, country, dateNow) ==
    IF ~r.ok THEN r
    ELSE IF r.value.t = "string"
    THEN IF startsWith(r.value.s, "ACCESS_NUMBER:")
         THEN LET parts == splitColon(r.value.s)
              IN  Return(Obj(<<"activationId", "phoneNumber", "activationCost",
                               "currency", "countryCode", "canGetAnotherSms",
                               "activationTime">>,
                             [activationId |-> parseInt(partAt(parts, 2)),
                              phoneNumber |-> partAt(parts, 3),
                              activationCost |-> Num("0"),
                              currency |-> Num("840"),
                              countryCode |-> Str(String(country)),
                              canGetAnotherSms |-> Str("1"),
                              activationTime |-> toISOString(dateNow)]))
         ELSE Throw(r.value.s)
    ELSE Return(r.value)

\* a mapping that reads the first name of each field only
mapRow_FirstNameOnly(rw) ==
    Obj(<<"activationId", "serviceCode", "phoneNumber", "activationCost",
          "activationStatus", "smsCode", "smsText", "activationTime", "discount",
          "repeated", "countryCode", "countryName", "canGetAnotherSms", "currency">>,
        [activationId |-> Str(String(or(Get(rw, "id"), Str("")))),
         serviceCode |-> or(Get(rw, "service"), Str("")),
         phoneNumber |-> or(Get(rw, "phone"), Str("")),
         activationCost |-> parseFloat(or(Get(rw, "cost"), Num("0"))),
         activationStatus |-> Str(String(or(Get(rw, "status"), Str("")))),
         smsCode |-> or(Get(rw, "code"), Null),
         smsText |-> or(Get(rw, "text"), Null),
         activationTime |-> or(Get(rw, "createDate"), Str("")),
         discount |-> or(Get(rw, "discount"), Str("0.00")),
         repeated |-> or(Get(rw, "repeated"), Str("0")),
         countryCode |-> Str(String(or(Get(rw, "country"), Str("")))),
         countryName |-> or(Get(rw, "countryName"), Str("")),
         canGetAnotherSms |-> or(Get(rw, "canGetAnotherSms"), Str("0")),
         currency |-> Str(String(or(Get(rw, "currency"), Str("840"))))])

\* lines 256-271: one row of the list to the Activation shape
mapRow(rw) ==
    Obj(<<"activationId", "serviceCode", "phoneNumber", "activationCost",
          "activationStatus", "smsCode", "smsText", "activationTime", "discount",
          "repeated", "countryCode", "countryName", "canGetAnotherSms", "currency">>,
        [activationId |-> Str(String(or(Get(rw, "id"), or(Get(rw, "activationId"), Str(""))))),
         serviceCode |-> or(Get(rw, "service"), or(Get(rw, "serviceCode"), Str(""))),
         phoneNumber |-> or(Get(rw, "phone"), or(Get(rw, "phoneNumber"), Str(""))),
         activationCost |->
             parseFloat(or(Get(rw, "cost"), or(Get(rw, "activationCost"), Num("0")))),
         activationStatus |->
             Str(String(or(Get(rw, "status"), or(Get(rw, "activationStatus"), Str(""))))),
         smsCode |-> or(Get(rw, "code"), or(Get(rw, "smsCode"), Null)),
         smsText |-> or(Get(rw, "text"), or(Get(rw, "smsText"), Null)),
         activationTime |-> or(Get(rw, "createDate"), or(Get(rw, "activationTime"), Str(""))),
         discount |-> or(Get(rw, "discount"), Str("0.00")),
         repeated |-> or(Get(rw, "repeated"), Str("0")),
         countryCode |-> Str(String(or(Get(rw, "country"), or(Get(rw, "countryCode"), Str(""))))),
         countryName |-> or(Get(rw, "countryName"), Str("")),
         canGetAnotherSms |-> or(Get(rw, "canGetAnotherSms"), Str("0")),
         currency |-> Str(String(or(Get(rw, "currency"), Str("840"))))])

UnexpectedActivations(v) ==
    Throw("Failed to fetch active activations: unexpected response format. Type: "
          \o typeofName(v))

\* lines 250-300: the shapes of a decoded object
activationsOfObject(result) ==
    LET active == Get(result, "activeActivations")
        keys == ObjectKeys(result)
    IN  IF /\ Get(result, "status") = Str("success")
           /\ truthy(active)
           /\ isArray(Get(active, "rows"))
        THEN Return(Arr([i \in 1..Len(Get(active, "rows").items) |->
                            mapRow(Get(active, "rows").items[i])]))
        ELSE IF Get(result, "status") = Str("success") /\ truthy(active) /\ isArray(active)
        THEN Return(active)
        ELSE IF Get(result, "status") = Str("error")
        THEN IF Get(result, "error") = Str("NO_ACTIVATIONS")
             THEN Return(Arr(<<>>))
             ELSE Throw(String(or(Get(result, "error"), Str("API returned an error"))))
        ELSE IF isArray(result) THEN Return(result)
        ELSE IF Len(keys) > 0 /\ \A i \in 1..Len(keys) : allDigits(keys[i])
        THEN Return(Arr(ObjectValues(result)))
        ELSE UnexpectedActivations(result)

\* lines 237-306
getActiveActivations(r) ==
    IF ~r.ok THEN r
    ELSE IF r.value.t = "string"
    THEN IF r.value.s = "NO_ACTIVATIONS" \/ includes(r.value.s, "NO_ACTIVATIONS")
         THEN Return(Arr(<<>>))
         ELSE Throw(r.value.s)
    ELSE IF truthy(r.value) /\ typeofObject(r.value)
    THEN activationsOfObject(r.value)
    ELSE UnexpectedActivations(r.value)

\* lines 308-316
getStatus(r) ==
    IF ~r.ok THEN r
    ELSE IF r.value.t = "string" THEN Return(r.value)
    ELSE Throw("Failed to fetch activation status")

\* lines 318-344
getStatusV2(r) ==
    IF ~r.ok THEN r
    ELSE IF r.value.t = "string" THEN Throw(r.value.s)
    ELSE Return(r.value)

\* lines 346-368
setActivationStatus(r) ==
    IF ~r.ok THEN r
    ELSE IF r.value.t = "string"
    THEN IF startsWith(r.value.s, "EARLY_CANCEL_DENIED")
         THEN Throw("You can't cancel a number within the first 2 minutes")
         ELSE IF startsWith(r.value.s, "NO_ACTIVATION")
         THEN Throw("Activation ID doesn't exist")
         ELSE IF startsWith(r.value.s, "BAD_STATUS")
         THEN Throw("Invalid status")
         ELSE IF startsWith(r.value.s, "WRONG_ACTIVATION_ID")
         THEN Throw("Activation ID is incorrect")
         ELSE Return(r.value)
    ELSE Throw("Failed to set activation status")

\* lines 370-378
getBalance(r) ==
    IF ~r.ok THEN r
    ELSE IF r.value.t = "string" THEN Return(r.value)
    ELSE Throw("Failed to fetch balance")


(***************************************************************************)
(* The normaliser specification: one operation of api.ts is called, fetch  *)
(* settles with some response, the operation settles with its outcome.     *)
(***************************************************************************)
Operations ==
    {"getServicesList", "getCountries", "getPrices", "getNumber",
     "getActiveActivations", "getStatus", "getStatusV2", "setActivationStatus",
     "getBalance"}

ApiKeys == {"", "key"}

\* what fetch can settle with
Responses ==
    [kind : {"fulfilled"}, ok : {TRUE}, text : PlainTexts \cup DOMAIN JsonDocs]
    \cup {[kind |-> "fulfilled", ok |-> FALSE, text |-> "<html>Bad Gateway</html>"],
          [kind |-> "rejected", ok |-> FALSE, text |-> ""]}

\* the operation o on what apiCall settled with
Operate(o, r, dateNow) ==
    CASE o = "getServicesList" -> getServicesList(r)
      [] o = "getCountries" -> getCountries(r)
      [] o = "getPrices" -> getPrices(r)
      [] o = "getNumber" -> getNumber(r, Num("2"), dateNow)
      [] o = "getActiveActivations" -> getActiveActivations(r)
      [] o = "getStatus" -> getStatus(r)
      [] o = "getStatusV2" -> getStatusV2(r)
      [] o = "setActivationStatus" -> setActivationStatus(r)
      [] o = "getBalance" -> getBalance(r)

ApiInit ==
    /\ TimeIdle
    /\ StatusIdle
    /\ SweepIdle
    /\ RecentIdle
    /\ BalanceIdle
    /\ op \in Operations
    /\ apiKey \in ApiKeys
    /\ response \in Responses
    /\ outcome = NotSettled

\* the awaited operation settles
Settle ==
    /\ outcome = NotSettled
    /\ outcome' = Operate(op, apiCall(apiKey, response), now)
    /\ UNCHANGED <<op, apiKey, response, timeVars, statusVars, sweepVars, purchase, recentVars, balanceVars>>

\* the next call, of any operation, answered by any response
Call ==
    /\ outcome # NotSettled
    /\ op' \in Operations
    /\ apiKey' \in ApiKeys
    /\ response' \in Responses
    /\ outcome' = NotSettled
    /\ UNCHANGED <<timeVars, statusVars, sweepVars, purchase, recentVars, balanceVars>>

ApiNext == Settle \/ Call

SpecApi == ApiInit /\ [][ApiNext]_vars

\* the reply reached the normaliser: a key is configured and fetch
\* fulfilled with an ok response
Answered ==
    /\ outcome # NotSettled
    /\ apiKey # ""
    /\ response.kind = "fulfilled"
    /\ response.ok

\* C3 as stated: the bare text "NO_ACTIVATIONS" answered to
\* getActiveActivations settles with the empty collection, never with a
\* failure.
C3_Original_NoActivationsIsEmpty ==
    (Answered /\ op = "getActiveActivations" /\ response.text = "NO_ACTIVATIONS") =>
        outcome = Return(Arr(<<>>))

\* the reply decodes to an object with status "error" that carries a
\* message other than the no-active-resources code
ErrorReply ==
    /\ JSONparse(response.text).ok
    /\ JSONparse(response.text).value.t = "object"
    /\ Get(JSONparse(response.text).value, "status") = Str("error")
    /\ truthy(or(Get(JSONparse(response.text).value, "error"),
                 Get(JSONparse(response.text).value, "msg")))
    /\ Get(JSONparse(response.text).value, "error") # Str("NO_ACTIVATIONS")

EmbeddedMessage ==
    String(or(Get(JSONparse(response.text).value, "error"),
              Get(JSONparse(response.text).value, "msg")))

\* C4 as stated: for every operation but the active list, a reply that
\* decodes to an object with status "error" fails the operation with the
\* embedded error/msg text as the message, and never returns a value.
C4_Original_ErrorObjectFails ==
    (Answered /\ op # "getActiveActivations" /\ ErrorReply) =>
        (~outcome.ok /\ outcome.message = EmbeddedMessage)

\* the reply is a sentinel text: it starts with BAD_, NO_ or ERROR_
Sentinel(text) ==
    startsWith(text, "BAD_") \/ startsWith(text, "NO_") \/ startsWith(text, "ERROR_")

Refusals == {"EARLY_CANCEL_DENIED", "NO_ACTIVATION", "BAD_STATUS", "WRONG_ACTIVATION_ID"}

\* C17 as stated: setActivationStatus answered by a plain text fails with
\* the translated message when the text starts with EARLY_CANCEL_DENIED,
\* NO_ACTIVATION, BAD_STATUS or WRONG_ACTIVATION_ID, and returns any other
\* plain text as its result.  The other sentinel texts, which fail every
\* operation, are left out.
C17_Original_RefusalsTranslated ==
    (/\ Answered
     /\ op = "setActivationStatus"
     /\ response.text \in PlainTexts
     /\ (Sentinel(response.text) => \E p \in Refusals : startsWith(response.text, p))) =>
        outcome =
            IF startsWith(response.text, "EARLY_CANCEL_DENIED")
            THEN Throw("You can't cancel a number within the first 2 minutes")
            ELSE IF startsWith(response.text, "NO_ACTIVATION")
            THEN Throw("Activation ID doesn't exist")
            ELSE IF startsWith(response.text, "BAD_STATUS")
            THEN Throw("Invalid status")
            ELSE IF startsWith(response.text, "WRONG_ACTIVATION_ID")
            THEN Throw("Activation ID is incorrect")
            ELSE Return(Str(response.text))

\* the reply decodes to an array of objects no two of which share a key
DistinctKeyArray(text) ==
    /\ JSONparse(text).ok
    /\ isArray(JSONparse(text).value)
    /\ LET items == JSONparse(text).value.items
       IN  /\ \A i \in 1..Len(items) : items[i].t = "object"
           /\ \A i, j \in 1..Len(items) :
                 i # j => Range(items[i].keys) \cap Range(items[j].keys) = {}

\* C18: getPrices answered by an array of objects with distinct keys
\* returns one object whose keys are exactly the keys of the elements,
\* each mapped to the value it has in its element; answered by the empty
\* array it returns the empty object.
C18_PricesArrayMerge ==
    (Answered /\ op = "getPrices" /\ DistinctKeyArray(response.text)) =>
        LET items == JSONparse(response.text).value.items
        IN  /\ outcome.ok
            /\ outcome.value.t = "object"
            /\ Range(ObjectKeys(outcome.value)) =
                   UNION {Range(items[i].keys) : i \in 1..Len(items)}
            /\ \A i \in 1..Len(items) :
                  \A k \in Range(items[i].keys) :
                      Get(outcome.value, k) = Get(items[i], k)
            /\ items = <<>> => outcome = Return(EmptyObj)

\* the two-element array of the example has been merged into the object
\* with the keys 1 and 2
C18_Witness ==
    /\ Answered
    /\ op = "getPrices"
    /\ response.text = DocPricesArray
    /\ outcome = Return(Obj(<<"1", "2">>,
                            ("1" :> PriceBlock("1")) @@ ("2" :> PriceBlock("2"))))

\* the reply decodes to an object that is no error report
ObjectReply(text) ==
    /\ JSONparse(text).ok
    /\ JSONparse(text).value.t = "object"
    /\ Get(JSONparse(text).value, "status") # Str("error")

\* every key of the object is a string of decimal digits
DigitKeyed(o) == o.keys # <<>> /\ \A i \in 1..Len(o.keys) : allDigits(o.keys[i])

\* the values of a digit-keyed object by ascending key, of any other
\* object of the model, which has no digit key, in the order written
InKeyOrder(o) ==
    IF DigitKeyed(o)
    THEN [i \in 1..Len(o.keys) |->
             o.val[CHOOSE k \in Range(o.keys) :
                       Cardinality({j \in Range(o.keys) : NumberOf(j) < NumberOf(k)}) = i - 1]]
    ELSE [i \in 1..Len(o.keys) |-> o.val[o.keys[i]]]

\* C19: getCountries answered by an object, and getActiveActivations
\* answered by an object whose keys are all digit strings, return the
\* object's values in key order (ascending for digit keys); the same
\* operation given the returned collection returns it unchanged.
C19_DictionaryAsArray ==
    (/\ Answered
     /\ ObjectReply(response.text)
     /\ \/ op = "getCountries"
        \/ op = "getActiveActivations" /\ DigitKeyed(JSONparse(response.text).value)) =>
        /\ outcome = Return(Arr(InKeyOrder(JSONparse(response.text).value)))
        /\ Operate(op, Return(outcome.value), now) = outcome

\* the countries written with key 2 before key 1 have been returned with
\* the country of key 1 first
C19_Witness ==
    /\ Answered
    /\ op = "getCountries"
    /\ response.text = DocCountries
    /\ outcome = Return(Arr(<<Country("1", "Ukraine"), Country("2", "Kazakhstan")>>))

\* the reply decodes to an array of objects, each mapping country keys to
\* objects of services
PriceArray(text) ==
    /\ JSONparse(text).ok
    /\ isArray(JSONparse(text).value)
    /\ LET items == JSONparse(text).value.items
       IN  \A i \in 1..Len(items) :
               /\ items[i].t = "object"
               /\ \A k \in Range(items[i].keys) : items[i].val[k].t = "object"

\* C30 as stated: getPrices answered by an array returns an object in which
\* every (country, service) price entry of every element is present with
\* the value it has in its element, also when two elements carry the same
\* country key with different services.
C30_Original_NoPriceLost ==
    (Answered /\ op = "getPrices" /\ PriceArray(response.text)) =>
        LET items == JSONparse(response.text).value.items
        IN  /\ outcome.ok
            /\ \A i \in 1..Len(items) :
                  \A country \in Range(items[i].keys) :
                      \A service \in Range(items[i].val[country].keys) :
                          Get(Get(outcome.value, country), service) =
                              items[i].val[country].val[service]

\* the reply decodes to a success envelope whose activeActivations holds
\* an array of rows
RowsReply(text) ==
    /\ JSONparse(text).ok
    /\ JSONparse(text).value.t = "object"
    /\ Get(JSONparse(text).value, "status") = Str("success")
    /\ Get(JSONparse(text).value, "activeActivations").t = "object"
    /\ isArray(Get(Get(JSONparse(text).value, "activeActivations"), "rows"))

\* the field of a row under its first name, else under its second name,
\* else the default
Either(rw, first, second, default) ==
    IF first \in Range(rw.keys) THEN rw.val[first]
    ELSE IF second \in Range(rw.keys) THEN rw.val[second]
    ELSE default

\* C25: getActiveActivations answered by a success envelope with
\* activeActivations.rows returns one canonical record per row in row
\* order; each field is taken from either of its two names, the id and the
\* status as text, the cost as a number; a row without them gets cost 0,
\* discount "0.00", currency "840" and smsCode null.
C25_RowsNormalised ==
    (Answered /\ op = "getActiveActivations" /\ RowsReply(response.text)) =>
        LET rows == Get(Get(JSONparse(response.text).value, "activeActivations"), "rows").items
        IN  /\ outcome.ok
            /\ isArray(outcome.value)
            /\ Len(outcome.value.items) = Len(rows)
            /\ \A i \in 1..Len(rows) :
                  LET rec == outcome.value.items[i]
                      rw == rows[i]
                  IN  /\ Get(rec, "activationId") =
                             Str(String(Either(rw, "id", "activationId", Str(""))))
                      /\ Get(rec, "serviceCode") = Either(rw, "service", "serviceCode", Str(""))
                      /\ Get(rec, "phoneNumber") = Either(rw, "phone", "phoneNumber", Str(""))
                      /\ Get(rec, "activationCost").t = "number"
                      /\ Get(rec, "activationCost") =
                             parseFloat(Either(rw, "cost", "activationCost", Num("0")))
                      /\ Get(rec, "activationStatus") =
                             Str(String(Either(rw, "status", "activationStatus", Str(""))))
                      /\ Get(rec, "smsCode") = Either(rw, "code", "smsCode", Null)
                      /\ Get(rec, "activationTime") =
                             Either(rw, "createDate", "activationTime", Str(""))
                      /\ Get(rec, "discount") = Either(rw, "discount", "discount", Str("0.00"))
                      /\ Get(rec, "currency") =
                             Str(String(Either(rw, "currency", "currency", Str("840"))))

\* the two rows of the example, one under each set of names, have been
\* returned in row order: the first with the defaults for smsCode, discount
\* and currency, the second with its own code and currency
C25_Witness ==
    /\ Answered
    /\ op = "getActiveActivations"
    /\ response.text = DocRows
    /\ Len(outcome.value.items) = 2
    /\ LET first == outcome.value.items[1]
           second == outcome.value.items[2]
       IN  /\ Get(first, "activationId") = Str("101")
           /\ Get(first, "serviceCode") = Str("tg")
           /\ Get(first, "phoneNumber") = Str("79990001")
           /\ Get(first, "activationCost") = Num("0.5")
           /\ Get(first, "activationStatus") = Str("4")
           /\ Get(first, "smsCode") = Null
           /\ Get(first, "activationTime") = Str("2026-01-08 21:42:03")
           /\ Get(first, "discount") = Str("0.00")
           /\ Get(first, "currency") = Str("840")
           /\ Get(second, "activationId") = Str("102")
           /\ Get(second, "serviceCode") = Str("wa")
           /\ Get(second, "phoneNumber") = Str("79990002")
           /\ Get(second, "activationCost") = Num("1.5")
           /\ Get(second, "activationStatus") = Str("1")
           /\ Get(second, "smsCode") = Str("1234")
           /\ Get(second, "activationTime") = Str("2026-01-08 21:40:00")
           /\ Get(second, "currency") = Str("643")


(***************************************************************************)
(* The poll cycle of SeeActivations and the persisted timer entries.       *)
(* The provider is the environment: it creates an activation on a          *)
(* purchase, here or elsewhere on the account, delivers an SMS, and stops  *)
(* listing an activation whenever it chooses.                              *)
(***************************************************************************)
Gone == [gone |-> TRUE]

Listed(u) == u \notin {Unborn, Gone}

Fulfilled(text) == [kind |-> "fulfilled", ok |-> TRUE, text |-> text]

Rejected == [kind |-> "rejected", ok |-> FALSE, text |-> ""]

\* the provider's record of an activation created at instant t
Created(t) ==
    [activationTime |-> [fmt |-> "space", wall |-> t],
     activationStatus |-> "4",
     sms |-> FALSE]

\* the rows of the active list, normalised as in mapRow, in id order
ActiveRows(up) ==
    LET ids == Ascending({id \in Ids : Listed(up[id])})
    IN  [k \in 1..Len(ids) |->
            [activationId |-> ids[k],
             activationTime |-> up[ids[k]].activationTime,
             activationStatus |-> up[ids[k]].activationStatus,
             smsCode |-> Null]]

\* what the provider answers when nothing is active
EmptyReplies == {"NO_ACTIVATIONS", DocErrNoActivations, DocEmptyArray}

\* line 80: what getActiveActivations can settle with
ListOutcomes(up) ==
    {getActiveActivations(apiCall("key", Rejected))}
    \cup (IF \E id \in Ids : Listed(up[id])
          THEN {Return(Arr(ActiveRows(up)))}
          ELSE {getActiveActivations(apiCall("key", Fulfilled(t))) : t \in EmptyReplies})

\* line 86: what getStatusV2 settles with for the provider's record u
StatusOutcome(u, failed) ==
    getStatusV2(apiCall("key",
        IF failed THEN Rejected
        ELSE IF ~Listed(u) THEN Fulfilled("NO_ACTIVATION")
        ELSE IF u.activationStatus = "8" THEN Fulfilled("STATUS_CANCEL")
        ELSE IF u.sms THEN Fulfilled(DocStatusV2)
        ELSE Fulfilled("STATUS_WAIT_CODE")))

DigitChar(d) ==
    CASE d = 0 -> "0" [] d = 1 -> "1" [] d = 2 -> "2" [] d = 3 -> "3"
      [] d = 4 -> "4" [] d = 5 -> "5" [] d = 6 -> "6" [] d = 7 -> "7"
      [] d = 8 -> "8" [] d = 9 -> "9"

\* String(n) of a non-negative integer
RECURSIVE NumberText(_)
NumberText(n) ==
    IF n < 10 THEN DigitChar(n) ELSE NumberText(n \div 10) \o DigitChar(n % 10)

\* get-phone-number.tsx 472-476, favorite-services.tsx 192-196:
\* JSON.stringify({ activationId, createdAt }); NaN is written as null
stringifyItem(activationId, createdAt) ==
    "{\"activationId\":"
    \o (IF activationId.t = "number"
        THEN (IF activationId.text = "NaN" THEN "null" ELSE activationId.text)
        ELSE "\"" \o String(activationId) \o "\"")
    \o ",\"createdAt\":" \o NumberText(createdAt) \o "}"

createdAtKey == ",\"createdAt\":"

\* lines 95-96: JSON.parse(localData).createdAt of an item text; a text
\* that is no object text throws and leaves undefined (lines 97-99)
parsedCreatedAt_LastDigitLost(text) ==
    LET at == {i \in 1..(Len(text) - Len(createdAtKey) + 1) :
                  SubSeq(text, i, i + Len(createdAtKey) - 1) = createdAtKey}
    IN  IF at = {} THEN Undefined
        ELSE LET i == CHOOSE j \in at : TRUE
             IN  NumberOf(SubSeq(text, i + Len(createdAtKey), Len(text) - 2))

parsedCreatedAt(text) ==
    LET at == {i \in 1..(Len(text) - Len(createdAtKey) + 1) :
                  SubSeq(text, i, i + Len(createdAtKey) - 1) = createdAtKey}
    IN  IF at = {} \/ charAt(text, 1) # "{" \/ charAt(text, Len(text)) # "}"
        THEN Undefined
        ELSE LET i == CHOOSE j \in at : TRUE
                 digits == SubSeq(text, i + Len(createdAtKey), Len(text) - 1)
             IN  IF allDigits(digits) THEN NumberOf(digits) ELSE Undefined

\* lines 90-100: the local creation instant of the stored item
localCreatedAtOf(localData) ==
    IF localData = NoItem THEN Undefined ELSE parsedCreatedAt(localData.text)

\* lines 84-128: one activation with its status details and local instant
enhance(activation, failed) ==
    LET status == StatusOutcome(upstream[activation.activationId], failed)
    IN  [activationId |-> activation.activationId,
         activationTime |-> activation.activationTime,
         activationStatus |-> activation.activationStatus,
         smsCode |-> activation.smsCode,
         statusDetails |->
             IF status.ok
             THEN DetailsWith(Get(Get(status.value, "sms"), "code"))
             ELSE Null,
         localCreatedAt |-> localCreatedAtOf(store[activation.activationId])]

twentyMinutes == 20 * 60 * 1000

\* the clock of the poll cycle is sampled every ten minutes
Span == 10 * 60 * 1000

\* a filter that takes a failed status fetch for an expiration
keeps_DropsUnknownStatus(activation, dateNow) ==
    /\ activation.statusDetails # Null
    /\ ~(Truthy(activation.localCreatedAt)
          /\ dateNow - activation.localCreatedAt > (20 * 60 * 1000))

\* a filter with a lifetime of ten minutes
keeps_TenMinutes(activation, dateNow) ==
    ~(Truthy(activation.localCreatedAt)
      /\ dateNow - activation.localCreatedAt >= 10 * 60 * 1000)

\* lines 133-145: the filter's verdict, TRUE to keep
keeps(activation, dateNow) ==
    ~(Truthy(activation.localCreatedAt)
      /\ dateNow - activation.localCreatedAt > twentyMinutes)

\* the list shows the activation with raw status 8 and no usable code
ObservedCanceled(id) ==
    \E k \in 1..Len(activations) :
        /\ activations[k].activationId = id
        /\ activations[k].activationStatus = "8"
        /\ ~hasCodeOf(codeOf(activations[k]))

Remove(q, i) == SubSeq(q, 1, i - 1) \o SubSeq(q, i + 1, Len(q))

\* a fetchActivations that has just been called; terminal remembers the
\* activations the list showed canceled without a code at that moment,
\* unwritten the activations without a store entry at that moment; stale
\* tells that a fetchActivations called later has set the list since
NewTick(live) ==
    [pc |-> "list", live |-> live, list |-> <<>>,
     terminal |-> {id \in Ids : ObservedCanceled(id)},
     unwritten |-> {id \in Ids : store[id] = NoItem},
     stale |-> FALSE]

\* the calls in flight once call i has settled; when it has set the list,
\* the calls made before it that will set the list are stale
Settled(i, setsList) ==
    Remove([j \in 1..Len(ticks) |->
               IF setsList /\ j < i /\ ticks[j].live
               THEN [ticks[j] EXCEPT !.stale = TRUE]
               ELSE ticks[j]],
           i)

SweepInit ==
    /\ StatusIdle
    /\ ApiIdle
    /\ SweepIdle
    /\ RecentIdle
    /\ BalanceIdle
    /\ now = T0
    /\ currentTime = T0
    /\ tzOffset = 0
    /\ item = [localCreatedAt |-> Undefined,
               activationTime |-> [fmt |-> "empty", wall |-> 0]]
    /\ rendered = NotRendered

others == <<tzOffset, item, rendered, statusVars, apiVars, recentVars, balanceVars>>

\* time passes
Elapse ==
    /\ now + Span <= T0 + Spans * Span
    /\ now' = now + Span
    /\ UNCHANGED <<currentTime, sweepVars, purchase, others>>

\* get-phone-number.tsx 454-461, favorite-services.tsx 174-182: the
\* purchase is requested and the provider creates the activation
PurchaseCall(id) ==
    /\ purchase = Idle
    /\ upstream[id] = Unborn
    /\ upstream' = [upstream EXCEPT ![id] = Created(now)]
    /\ purchase' = [pc |-> "calling", id |-> id]
    /\ UNCHANGED <<now, currentTime, store, mounted, activations, isLoading, ticks,
                   cancel, others>>

\* get-phone-number.tsx 461-476, favorite-services.tsx 182-196: getNumber
\* settles and the timer entry is written
PurchaseReturn ==
    /\ purchase # Idle
    /\ \E res \in {Fulfilled(DocNumberOf(purchase.id)), Fulfilled("NO_BALANCE"), Rejected} :
          LET result == getNumber(apiCall("key", res), Num("2"), now)
          IN  IF result.ok /\ result.value.t # "string"
              THEN LET id == String(Get(result.value, "activationId"))
                   IN  store' = [store EXCEPT ![id] =
                                    [text |-> stringifyItem(Get(result.value, "activationId"),
                                                            now)]]
              ELSE UNCHANGED store
    /\ purchase' = Idle
    /\ UNCHANGED <<now, currentTime, upstream, mounted, activations, isLoading, ticks,
                   cancel, others>>

\* an activation is bought on the account outside this extension
ForeignPurchase(id) ==
    /\ upstream[id] = Unborn
    /\ upstream' = [upstream EXCEPT ![id] = Created(now)]
    /\ UNCHANGED <<now, currentTime, store, mounted, activations, isLoading, ticks,
                   cancel, purchase, others>>

\* the provider receives the SMS of a waiting activation
SmsArrives(id) ==
    /\ Listed(upstream[id])
    /\ upstream[id].activationStatus = "4"
    /\ ~upstream[id].sms
    /\ upstream' = [upstream EXCEPT ![id].sms = TRUE]
    /\ UNCHANGED <<now, currentTime, store, mounted, activations, isLoading, ticks,
                   cancel, purchase, others>>

\* the provider stops listing an activation
Drops(id) ==
    /\ Listed(upstream[id])
    /\ upstream' = [upstream EXCEPT ![id] = Gone]
    /\ UNCHANGED <<now, currentTime, store, mounted, activations, isLoading, ticks,
                   cancel, purchase, others>>

\* lines 57-66, 212-218: the component mounts: its first fetchActivations
\* is called and the 1 s interval set
MountPoll ==
    /\ ~mounted
    /\ Len(ticks) < MaxTicks
    /\ mounted' = TRUE
    /\ activations' = <<>>
    /\ isLoading' = TRUE
    /\ currentTime' = now
    /\ ticks' = Append(ticks, NewTick(TRUE))
    /\ UNCHANGED <<now, store, upstream, cancel, purchase, tzOffset, item, rendered,
                   statusVars, apiVars, recentVars>>

\* the mount as the poll cycle sees it: the balance is not followed
Mount == MountPoll /\ UNCHANGED balanceVars

\* lines 220-223: the cleanup clears the 1 s interval; a fetchActivations in
\* flight runs on, its state updates go nowhere
UnmountPoll ==
    /\ mounted
    /\ mounted' = FALSE
    /\ activations' = <<>>
    /\ isLoading' = TRUE
    /\ ticks' = [i \in 1..Len(ticks) |->
                    [ticks[i] EXCEPT !.live = FALSE, !.stale = FALSE]]
    /\ UNCHANGED <<now, currentTime, store, upstream, cancel, purchase, tzOffset, item,
                   rendered, statusVars, apiVars, recentVars>>

\* the cleanup as the poll cycle sees it
Unmount == UnmountPoll /\ UNCHANGED balanceVars

\* lines 215-218: the 1 s interval fires
PollFire ==
    /\ mounted
    /\ Len(ticks) < MaxTicks
    /\ currentTime' = now
    /\ ticks' = Append(ticks, NewTick(TRUE))
    /\ UNCHANGED <<now, store, upstream, mounted, activations, isLoading, cancel,
                   purchase, others>>

\* a fetchActivations whose catch empties the list
TickListed_ClearsOnFailure(i) ==
    /\ i \in 1..Len(ticks)
    /\ ticks[i].pc = "list"
    /\ \E out \in ListOutcomes(upstream) :
          IF out.ok
          THEN /\ ticks' = [ticks EXCEPT ![i].pc = "enhance",
                                          ![i].list = out.value.items]
               /\ UNCHANGED <<isLoading, activations>>
          ELSE /\ ticks' = Remove(ticks, i)
               /\ isLoading' = IF ticks[i].live THEN FALSE ELSE isLoading
               /\ activations' = IF ticks[i].live THEN <<>> ELSE activations
    /\ UNCHANGED <<now, currentTime, store, upstream, mounted, cancel, purchase,
                   tzOffset, item, rendered, statusVars, apiVars, recentVars, balanceVars>>

\* lines 80, 149-158: getActiveActivations settles
TickListed(i) ==
    /\ i \in 1..Len(ticks)
    /\ ticks[i].pc = "list"
    /\ \E out \in ListOutcomes(upstream) :
          IF out.ok
          THEN /\ ticks' = [ticks EXCEPT ![i].pc = "enhance",
                                          ![i].list = out.value.items]
               /\ UNCHANGED isLoading
          ELSE /\ ticks' = Remove(ticks, i)
               /\ isLoading' = IF ticks[i].live THEN FALSE ELSE isLoading
    /\ UNCHANGED <<now, currentTime, store, upstream, mounted, activations, cancel,
                   purchase, others>>

\* lines 83-148: the status details and local instants are collected, the
\* expired activations filtered out and their entries removed, the list set
TickFinish(i) ==
    /\ i \in 1..Len(ticks)
    /\ ticks[i].pc = "enhance"
    /\ \E failing \in SUBSET {ticks[i].list[k].activationId : k \in 1..Len(ticks[i].list)} :
          LET enhancedActivations ==
                  [k \in 1..Len(ticks[i].list) |->
                      enhance(ticks[i].list[k], ticks[i].list[k].activationId \in failing)]
              validActivations ==
                  SelectSeq(enhancedActivations, LAMBDA a : keeps(a, now))
              removed ==
                  {enhancedActivations[k].activationId :
                      k \in {j \in 1..Len(enhancedActivations) :
                                ~keeps(enhancedActivations[j], now)}}
          IN  /\ store' = [id \in Ids |-> IF id \in removed THEN NoItem ELSE store[id]]
              /\ activations' = IF ticks[i].live THEN validActivations ELSE activations
    /\ isLoading' = IF ticks[i].live THEN FALSE ELSE isLoading
    /\ ticks' = Settled(i, ticks[i].live)
    /\ UNCHANGED <<now, currentTime, upstream, mounted, cancel, purchase, others>>

\* lines 246-253: the user cancels a displayed activation
CancelStart(k) ==
    /\ mounted
    /\ cancel = Idle
    /\ k \in 1..Len(activations)
    /\ cancel' = [pc |-> "calling", id |-> activations[k].activationId]
    /\ UNCHANGED <<now, currentTime, store, upstream, mounted, activations, isLoading,
                   ticks, purchase, others>>

\* what the provider answers to setStatus 8
CancelReplies(u) ==
    {Rejected}
    \cup (IF Listed(u) /\ u.activationStatus # "8"
          THEN {Fulfilled("ACCESS_CANCEL"), Fulfilled("EARLY_CANCEL_DENIED")}
          ELSE {Fulfilled("NO_ACTIVATION")})

\* lines 253-270: setActivationStatus settles; on success the list is
\* fetched again
CancelSettle ==
    /\ cancel # Idle
    /\ cancel.pc = "calling"
    /\ \E res \in CancelReplies(upstream[cancel.id]) :
          LET out == setActivationStatus(apiCall("key", res))
          IN  IF out.ok
              THEN /\ Len(ticks) < MaxTicks
                   /\ upstream' = [upstream EXCEPT ![cancel.id].activationStatus = "8"]
                   /\ ticks' = Append(ticks, NewTick(mounted))
                   /\ cancel' = [pc |-> "toast", id |-> cancel.id, style |-> "Success",
                                 title |-> "Activation Canceled"]
              ELSE /\ cancel' = [pc |-> "toast", id |-> cancel.id, style |-> "Failure",
                                 title |-> "Failed to cancel activation"]
                   /\ UNCHANGED <<upstream, ticks>>
    /\ UNCHANGED <<now, currentTime, store, mounted, activations, isLoading, purchase,
                   others>>

\* the toast of the cancellation goes away
ToastHides ==
    /\ cancel # Idle
    /\ cancel.pc = "toast"
    /\ cancel' = Idle
    /\ UNCHANGED <<now, currentTime, store, upstream, mounted, activations, isLoading,
                   ticks, purchase, others>>

Next ==
    \/ Elapse
    \/ \E id \in Ids : PurchaseCall(id)
    \/ PurchaseReturn
    \/ \E id \in Ids : ForeignPurchase(id)
    \/ \E id \in Ids : SmsArrives(id)
    \/ \E id \in Ids : Drops(id)
    \/ Mount
    \/ Unmount
    \/ PollFire
    \/ \E i \in 1..MaxTicks : TickListed(i)
    \/ \E i \in 1..MaxTicks : TickFinish(i)
    \/ \E k \in 1..Cardinality(Ids) : CancelStart(k)
    \/ CancelSettle
    \/ ToastHides

Spec == SweepInit /\ [][Next]_vars

\* the countdown a render shows for a displayed activation
Countdown(a, dateNow, cur) == remainingTimeOf(a, dateNow, cur, 0)

\* C1 as stated: every list a poll tick sets holds no activation whose
\* countdown, rendered from that list with the interval's clock up to
\* date, reports expired; the expired ones are gone from the list and
\* from the store.
C1_Original_TickRemovesExpired ==
    [][((\E i \in 1..MaxTicks : TickFinish(i) /\ ticks[i].live) /\ currentTime' = now') =>
          \A k \in 1..Len(activations') :
              ~Countdown(activations'[k], now', currentTime').expired]_vars

\* C2 as stated: once handleCancelActivation has succeeded and the fetch
\* it started has completed, the store holds no entry of the canceled
\* activation; nor does it hold one of a displayed activation in a
\* terminal status without a usable code.
C2_Original_CancelDeletesEntry ==
    /\ (cancel # Idle /\ cancel.pc = "toast" /\ cancel.style = "Success" /\ ticks = <<>>) =>
           store[cancel.id] = NoItem
    /\ \A k \in 1..Len(activations) :
           (activations[k].activationStatus \in {"6", "8"}
            /\ ~hasCodeOf(codeOf(activations[k]))) =>
               store[activations[k].activationId] = NoItem

\* C12: a successful purchase leaves the entry of the new activation in the
\* store with createdAt the instant of the purchase; an entry once written
\* is never rewritten, only removed; and every tick that sets the list
\* gives each listed activation, as localCreatedAt, exactly the createdAt
\* its entry was written with (undefined when it has no entry).
C12_CreatedAtRoundTrip ==
    [][/\ (PurchaseReturn /\ store' # store) =>
              /\ store'[purchase.id] = [text |-> stringifyItem(Num(purchase.id), now)]
              /\ localCreatedAtOf(store'[purchase.id]) = now
       /\ \A id \in Ids :
              store[id] # NoItem => store'[id] \in {store[id], NoItem}
       /\ (\E i \in 1..MaxTicks : TickFinish(i) /\ ticks[i].live) =>
              \A k \in 1..Len(activations') :
                  LET a == activations'[k]
                  IN  IF store[a.activationId] = NoItem
                      THEN a.localCreatedAt = Undefined
                      ELSE store[a.activationId] =
                               [text |-> stringifyItem(Num(a.activationId),
                                                       a.localCreatedAt)]]_vars

\* an activation bought after the clock has moved is displayed with the
\* instant of its purchase, its entry still in the store
C12_Witness ==
    \E k \in 1..Len(activations) :
        /\ activations[k].localCreatedAt > T0
        /\ store[activations[k].activationId] =
               [text |-> stringifyItem(Num(activations[k].activationId),
                                       activations[k].localCreatedAt)]

\* the filter's test of lines 134-142 on a local instant
LocallyExpired(local, dateNow) == Truthy(local) /\ dateNow - local > twentyMinutes

\* C13: in every tick that sets the list, a listed activation whose
\* getStatusV2 does not succeed is in the list the tick sets, with status
\* details null and with the local instant its store entry holds, unless
\* that instant is more than twenty minutes old, and only then is it
\* absent; status details other than null come from a successful fetch.
C13_StatusFailureRetains ==
    [][\A i \in 1..MaxTicks :
          (TickFinish(i) /\ ticks[i].live) =>
              \A k \in 1..Len(ticks[i].list) :
                  LET a == ticks[i].list[k]
                      local == localCreatedAtOf(store[a.activationId])
                      kept == {j \in 1..Len(activations') :
                                  activations'[j].activationId = a.activationId}
                  IN  /\ LocallyExpired(local, now) <=> kept = {}
                      /\ \A j \in kept :
                            /\ activations'[j].localCreatedAt = local
                            /\ activations'[j].activationStatus = a.activationStatus
                            /\ activations'[j].activationTime = a.activationTime
                            /\ activations'[j].statusDetails # Null =>
                                   StatusOutcome(upstream[a.activationId], FALSE).ok
                            /\ ~StatusOutcome(upstream[a.activationId], FALSE).ok =>
                                   activations'[j].statusDetails = Null]_vars

\* an activation is displayed with no status details and the instant of
\* its entry, some time after its purchase
C13_Witness ==
    \E k \in 1..Len(activations) :
        /\ activations[k].statusDetails = Null
        /\ Truthy(activations[k].localCreatedAt)
        /\ now > activations[k].localCreatedAt
        /\ ~LocallyExpired(activations[k].localCreatedAt, now)
        /\ localCreatedAtOf(store[activations[k].activationId]) =
               activations[k].localCreatedAt

\* C14: a step in which a tick ends at its active-list call, the call
\* having failed, changes neither the displayed list nor the store.
C14_ListFailureChangesNothing ==
    [][(\E i \in 1..Len(ticks) : ticks[i].pc = "list" /\ ticks' = Remove(ticks, i)) =>
          /\ activations' = activations
          /\ store' = store]_vars

\* the tick started by the interval at the present instant has ended, no
\* tick is in flight, and the list still shows an activation that the
\* filter of a completed tick would have removed, its entry still stored:
\* that tick failed at its active-list call
C14_Witness ==
    /\ mounted
    /\ ticks = <<>>
    /\ currentTime = now
    /\ \E k \in 1..Len(activations) :
          /\ LocallyExpired(activations[k].localCreatedAt, now)
          /\ store[activations[k].activationId] # NoItem

\* C15 as stated: a tick started while the list showed an activation with
\* raw status 8 and no usable code issues no getStatusV2 for it.
C15_Original_CanceledNotPolled ==
    [][\A i \in 1..Len(ticks) :
          (ticks[i].pc = "list" /\ Len(ticks') = Len(ticks) /\ ticks'[i].pc = "enhance") =>
              \A k \in 1..Len(ticks'[i].list) :
                  ticks'[i].list[k].activationId \notin ticks[i].terminal]_vars

(***************************************************************************)
(* get-phone-number.tsx, favorite-services.tsx: the recently used          *)
(* countries.  The item of the store is held by the value its text         *)
(* decodes to: JSON.stringify writes an array as an array text, and        *)
(* JSON.parse reads an array text as an array.                             *)
(***************************************************************************)
\* the services and the country ids of the model
Services == {"tg", "wa", "vk"}

\* The country ids are 1..Countries: one more than a list keeps.
Countries == 11

CountryIds == 1..Countries

\* { serviceCode, countryIds }
RecentEntry(serviceCode, countryIds) ==
    [serviceCode |-> serviceCode, countryIds |-> countryIds]

\* entries.find((e) => e.serviceCode === serviceCode): its index, 0 if none
findEntry(entries, serviceCode) ==
    IF \E i \in 1..Len(entries) : entries[i].serviceCode = serviceCode
    THEN CHOOSE i \in 1..Len(entries) :
             /\ entries[i].serviceCode = serviceCode
             /\ \A j \in 1..(i - 1) : entries[j].serviceCode # serviceCode
    ELSE 0

\* ids.slice(0, n)
slice(ids, n) == SubSeq(ids, 1, IF Len(ids) < n THEN Len(ids) ELSE n)

\* lines 63-74 on the entries read: find or create the entry, move the
\* country to the front, keep ten
withCountry(entries, serviceCode, countryId) ==
    LET all == IF findEntry(entries, serviceCode) = 0
               THEN Append(entries, RecentEntry(serviceCode, <<>>))
               ELSE entries
        i == findEntry(all, serviceCode)
        ids == slice(<<countryId>>
                     \o SelectSeq(all[i].countryIds, LAMBDA id : id # countryId), 10)
    IN  [all EXCEPT ![i] = RecentEntry(serviceCode, ids)]

\* line 57: entries = Array.isArray(parsed) ? [] : parsed
entriesRead(parsed) == IF isArray(parsed) THEN <<>> ELSE parsed.items

\* get-phone-number.tsx 49-81, favorite-services.tsx 24-56: the item
\* saveRecentlyUsedCountry leaves in the store
saveRecentlyUsedCountry(recent, serviceCode, countryId) ==
    IF recent # NoItem /\ ~isArray(recent)
    THEN recent    \* entries.find of no array throws, line 78 logs it
    ELSE Arr(withCountry(IF recent = NoItem THEN <<>> ELSE entriesRead(recent),
                         serviceCode, countryId))

\* get-phone-number.tsx 30-47
getRecentlyUsedCountries(recent, serviceCode) ==
    IF recent = NoItem \/ isArray(recent) THEN <<>>
    ELSE IF findEntry(recent.items, serviceCode) = 0 THEN <<>>
    ELSE recent.items[findEntry(recent.items, serviceCode)].countryIds

RecentInit ==
    /\ TimeIdle
    /\ StatusIdle
    /\ ApiIdle
    /\ SweepIdle
    /\ RecentIdle
    /\ BalanceIdle

\* get-phone-number.tsx 485, favorite-services.tsx 199: a purchase has
\* succeeded and its service and country are saved
Save(serviceCode, countryId) ==
    /\ recentlyUsed' = saveRecentlyUsedCountry(recentlyUsed, serviceCode, countryId)
    /\ UNCHANGED <<loaded, timeVars, statusVars, apiVars, sweepVars, purchase, balanceVars>>

\* get-phone-number.tsx 308: the countries of a service are listed
Load(serviceCode) ==
    /\ loaded' = [serviceCode |-> serviceCode,
                  countryIds |-> getRecentlyUsedCountries(recentlyUsed, serviceCode)]
    /\ UNCHANGED <<recentlyUsed, timeVars, statusVars, apiVars, sweepVars, purchase, balanceVars>>

RecentNext ==
    \/ \E serviceCode \in Services, countryId \in CountryIds : Save(serviceCode, countryId)
    \/ \E serviceCode \in Services : Load(serviceCode)

SpecRecent == RecentInit /\ [][RecentNext]_vars

\* the list the store holds for a service
StoredList(recent, serviceCode) ==
    IF recent = NoItem \/ ~isArray(recent) \/ findEntry(recent.items, serviceCode) = 0
    THEN <<>>
    ELSE recent.items[findEntry(recent.items, serviceCode)].countryIds

\* C21 as stated: after every save the list of the saved service has at
\* most 10 ids, no duplicates, the saved country first and then the ids it
\* held before in their order; the lists of the other services are as they
\* were.
C21_Original_RecentlyUsedOrder ==
    [][\A serviceCode \in Services, countryId \in CountryIds :
          Save(serviceCode, countryId) =>
              LET before == StoredList(recentlyUsed, serviceCode)
                  after == StoredList(recentlyUsed', serviceCode)
              IN  /\ Len(after) <= 10
                  /\ \A i, j \in 1..Len(after) : i # j => after[i] # after[j]
                  /\ after = slice(<<countryId>>
                                   \o SelectSeq(before, LAMBDA id : id # countryId), 10)
                  /\ \A other \in Services \ {serviceCode} :
                        StoredList(recentlyUsed', other) =
                            StoredList(recentlyUsed, other)]_vars



(***************************************************************************)
(* Claims about overlapping ticks and purchases, under Spec.               *)
(***************************************************************************)
\* C23 as stated: under every interleaving of ticks and purchases no step
\* rewrites a stored entry, an entry is removed only when its own createdAt
\* is more than twenty minutes old, and a tick that started before an
\* entry was written never removes that entry.
C23_Original_StoreNotCorrupted ==
    [][/\ \A id \in Ids :
              store[id] # NoItem => store'[id] \in {store[id], NoItem}
       /\ \A id \in Ids :
              (store[id] # NoItem /\ store'[id] = NoItem) =>
                  LocallyExpired(localCreatedAtOf(store[id]), now)
       /\ \A i \in 1..MaxTicks :
              TickFinish(i) =>
                  \A id \in ticks[i].unwritten :
                      store[id] # NoItem => store'[id] # NoItem]_vars

\* C23: under every interleaving of ticks and purchases no step rewrites a
\* stored entry, and an entry is removed, by a tick that started before or
\* after it was written, only when its own createdAt is more than twenty
\* minutes old at the moment of the removal; a tick that started before
\* the purchase keeps the entry whenever it settles within those twenty
\* minutes.
C23_StoreNotCorrupted ==
    [][/\ \A id \in Ids :
              store[id] # NoItem => store'[id] \in {store[id], NoItem}
       /\ \A id \in Ids :
              (store[id] # NoItem /\ store'[id] = NoItem) =>
                  LocallyExpired(localCreatedAtOf(store[id]), now)
       /\ \A i \in 1..MaxTicks :
              TickFinish(i) =>
                  \A id \in ticks[i].unwritten :
                      (/\ store[id] # NoItem
                       /\ now - localCreatedAtOf(store[id]) <= twentyMinutes) =>
                          store'[id] = store[id]]_vars

\* a tick that started before the purchase has listed the activation the
\* purchase created, whose entry, written since, is not yet twenty minutes
\* old, while a second tick, started after the purchase, is in flight too
C23_Witness ==
    /\ Len(ticks) = 2
    /\ ticks[1].pc = "enhance"
    /\ "101" \in ticks[1].unwritten
    /\ \E k \in 1..Len(ticks[1].list) : ticks[1].list[k].activationId = "101"
    /\ "101" \notin ticks[2].unwritten
    /\ store["101"] # NoItem
    /\ now - localCreatedAtOf(store["101"]) <= twentyMinutes
    /\ now > localCreatedAtOf(store["101"])

\* C27 as stated: a tick that settles after a tick started later has set
\* the list leaves the list as the later tick set it; the older, slower tick
\* never overwrites the newer result, and an activation the newer tick
\* evicted does not come back.
C27_Original_LastStartedWins ==
    [][\A i \in 1..MaxTicks :
          (TickFinish(i) /\ ticks[i].live /\ ticks[i].stale) =>
              activations' = activations]_vars

\* no tick, now or later, can remove the entry of id: it is more than
\* twenty minutes old, the provider has stopped listing the activation for
\* good, and no call in flight holds it in its list
Stuck(id, entries, provider, calls, dateNow) ==
    /\ entries[id] # NoItem
    /\ provider[id] = Gone
    /\ \A i \in 1..Len(calls) :
          \A k \in 1..Len(calls[i].list) : calls[i].list[k].activationId # id
    /\ LocallyExpired(localCreatedAtOf(entries[id]), dateNow)

\* C28 as stated: the store does not leak timer entries: an entry written
\* at purchase is removed once it is more than twenty minutes old as long
\* as poll ticks keep running, also when the provider stops listing the
\* activation at or before its expiry; so no tick of the mounted surface
\* completes on a store that still holds an entry more than twenty minutes
\* old that neither a call in flight nor any later tick can remove.
C28_Original_NoEntryLeaks ==
    [][\A i \in 1..MaxTicks :
          (TickFinish(i) /\ ticks[i].live) =>
              \A id \in Ids : ~Stuck(id, store', upstream', ticks', now')]_vars


(***************************************************************************)
(* The surface with both of its timers: the effect of SeeActivations sets  *)
(* the 30 s interval of fetchBalance and the 1 s interval of               *)
(* fetchActivations, its cleanup clears both.                              *)
(***************************************************************************)
\* see-activations.tsx 48-55: parseFloat(...) || 0 of the balance text
parseBalance(balanceString) ==
    LET amount ==
            IF startsWith(balanceString, "ACCESS_BALANCE:")
            THEN SubSeq(balanceString, Len("ACCESS_BALANCE:") + 1, Len(balanceString))
            ELSE balanceString
    IN  or(parseFloat(Str(amount)), Num("0"))

\* line 197: what getBalance can settle with
BalanceOutcomes ==
    {getBalance(apiCall("key", res)) :
        res \in {Fulfilled("ACCESS_BALANCE:123.45"), Fulfilled("<html>Bad Gateway</html>"),
                 Fulfilled(DocBareNumber), Rejected}}

\* lines 207-218: the effect: fetchBalance is called and its interval set,
\* then fetchActivations is called and its interval set
MountSurface ==
    /\ MountPoll
    /\ Len(balanceCalls) < MaxTicks
    /\ balance' = Null
    /\ balanceInterval' = TRUE
    /\ balanceCalls' = Append(balanceCalls, [live |-> TRUE])

\* a cleanup that leaves the interval of fetchBalance set
UnmountSurface_KeepsBalanceInterval ==
    /\ UnmountPoll
    /\ balance' = Null
    /\ balanceCalls' = [i \in 1..Len(balanceCalls) |-> [live |-> FALSE]]
    /\ UNCHANGED balanceInterval

\* lines 220-227: the cleanup clears both intervals; the calls in flight
\* run on
UnmountSurface ==
    /\ UnmountPoll
    /\ balance' = Null
    /\ balanceInterval' = FALSE
    /\ balanceCalls' = [i \in 1..Len(balanceCalls) |-> [live |-> FALSE]]

\* line 209: the 30 s interval fires
BalanceFire ==
    /\ balanceInterval
    /\ Len(balanceCalls) < MaxTicks
    /\ balanceCalls' = Append(balanceCalls, [live |-> TRUE])
    /\ UNCHANGED <<balance, balanceInterval, now, currentTime, sweepVars, purchase,
                   tzOffset, item, rendered, statusVars, apiVars, recentVars>>

\* lines 194-205: getBalance settles and the balance is set
BalanceSettle(i) ==
    /\ i \in 1..Len(balanceCalls)
    /\ \E out \in BalanceOutcomes :
          balance' = IF ~balanceCalls[i].live THEN balance
                     ELSE IF out.ok THEN parseBalance(out.value.s)
                     ELSE Null
    /\ balanceCalls' = Remove(balanceCalls, i)
    /\ UNCHANGED <<balanceInterval, now, currentTime, sweepVars, purchase,
                   tzOffset, item, rendered, statusVars, apiVars, recentVars>>

SurfaceNext ==
    \/ MountSurface
    \/ UnmountSurface
    \/ PollFire
    \/ BalanceFire
    \/ \E i \in 1..MaxTicks : TickListed(i)
    \/ \E i \in 1..MaxTicks : TickFinish(i)
    \/ \E i \in 1..MaxTicks : BalanceSettle(i)
    \/ \E id \in Ids : ForeignPurchase(id)
    \/ \E k \in 1..Cardinality(Ids) : CancelStart(k)
    \/ CancelSettle
    \/ ToastHides

SpecSurface == SweepInit /\ [][SurfaceNext]_vars

\* the calls in flight, as the cleanup leaves them: pc and list unchanged
SameCalls(before, after) ==
    /\ Len(after) = Len(before)
    /\ \A i \in 1..Len(before) :
          after[i].pc = before[i].pc /\ after[i].list = before[i].list

\* C24: stopping the surface is cooperative.  Once the cleanup has run, and
\* until the next mount, no step starts a fetchBalance, and no step starts
\* a fetchActivations but the completion of a cancel the user had begun
\* (no interval fires); the cleanup aborts nothing: it leaves every
\* fetchActivations and fetchBalance in flight where it was, a call leaves
\* the calls in flight only by settling, and every call in flight, of a
\* mounted surface or not, can settle.
C24_CooperativeStop ==
    /\ [](/\ \A i \in 1..Len(ticks) : ENABLED (TickListed(i) \/ TickFinish(i))
          /\ \A i \in 1..Len(balanceCalls) : ENABLED BalanceSettle(i))
    /\ [][/\ (~mounted /\ ~mounted') =>
                /\ Len(balanceCalls') <= Len(balanceCalls)
                /\ (Len(ticks') > Len(ticks) => CancelSettle)
                /\ ~balanceInterval'
          /\ (mounted /\ ~mounted') =>
                /\ SameCalls(ticks, ticks')
                /\ Len(balanceCalls') = Len(balanceCalls)
                /\ ~balanceInterval'
          /\ Len(ticks') < Len(ticks) =>
                \E i \in 1..MaxTicks : TickListed(i) \/ TickFinish(i)
          /\ Len(balanceCalls') < Len(balanceCalls) =>
                \E i \in 1..MaxTicks : BalanceSettle(i)]_vars

\* after the cleanup a fetchActivations that has got its list and a
\* fetchBalance, both called while the surface was mounted, are still in
\* flight
C24_Witness ==
    /\ ~mounted
    /\ ~balanceInterval
    /\ \E i \in 1..Len(ticks) :
          ~ticks[i].live /\ ticks[i].pc = "enhance" /\ ticks[i].list # <<>>
    /\ \E i \in 1..Len(balanceCalls) : ~balanceCalls[i].live
====
